---- MODULE Spec2Model ----
(***************************************************************************)
(* Model of the `sound play` command of nu_plugin_audio_hook               *)
(* (src/src/audio_player.rs): play_audio, wait_silent, wait_with_progress  *)
(* and the terminal side effects of render_progress.                       *)
(*                                                                         *)
(* Durations are counted in units of 100 ms.  An f32 is the integer number *)
(* of 2^-29 it equals (every value the volume arithmetic produces in       *)
(* [0, 2.05] is such a multiple), rounded to 24 significant bits, ties to  *)
(* even, as IEEE-754 single precision does; NaN is a value of its own.     *)
(* An Option<T> is a sequence of length 0 (None) or 1 (Some).              *)
(***************************************************************************)
EXTENDS Integers, Sequences, FiniteSets, TLC

VARIABLES
    pc,               \* where control is: play_audio, silent, progress_start,
                      \* loop, final_render, teardown, returned
    result,           \* the Result returned to the caller ("none" until set)
    total,            \* wait_with_progress / wait_silent `total`
    interactive,      \* wait_with_progress `interactive`
    header,           \* header.is_some()
    position,         \* wait_with_progress `position`
    paused,           \* wait_with_progress `paused`
    volume,           \* wait_with_progress `volume` (f32)
    pre_mute_volume,  \* wait_with_progress `pre_mute_volume` (f32)
    first_render,     \* wait_with_progress `first_render`
    since_render,     \* last_render.elapsed(), saturated at RENDER_INTERVAL
    wall,             \* wait_silent start.elapsed(), saturated at total
    sink,             \* the rodio Sink: [pos, paused, volume, stopped, empty]
    interrupted,      \* engine.signals(): an interrupt has been raised
    term,             \* the terminal: [raw, hidden, row, lines]
    ticks,            \* history: loop iterations begun
    tick_log,         \* history: what the latest loop iteration did
    final_frame,      \* history: the frames drawn by the render call after the loop
    n_show,           \* history: cursor Show commands issued
    n_clear,          \* history: Clear(CurrentLine) commands issued
    exit_reason,      \* history: which exit the session took
    call,             \* the arguments and the file of the call, where a
                      \* specification fixes them before the call is made
    layout,           \* one render_progress call examined on its own: its
                      \* arguments and the bar widths it chose
    probe,            \* one call of a helper outside the session examined on
                      \* its own: its inputs and what it returned
    pending           \* the terminal events that have arrived and not been
                      \* read, oldest first, where a specification queues them

vars == <<pc, result, total, interactive, header, position, paused, volume,
          pre_mute_volume, first_render, since_render, wall, sink, interrupted,
          term, ticks, tick_log, final_frame, n_show, n_clear, exit_reason,
          call, layout, probe, pending>>

aux == <<call, layout, probe, pending>>

(***************************************************************************)
(* Bounds of the model.                                                    *)
(***************************************************************************)
MaxTicks == 3
MaxOvershoot == 1
MaxPresses == 22
MaxQueue == 2

(***************************************************************************)
(* Program constants.                                                      *)
(***************************************************************************)
KEY_POLL_INTERVAL == 2
RENDER_INTERVAL == 5
SEEK_STEP == 50
CONTROLS_THRESHOLD == 600
FALLBACK_DURATION == 36000
MIN_RENDER_WIDTH == 40
VOLUME_STEP == 26843546
VOLUME_MAX == 1073741824
F32_ONE == 536870912
F32_ZERO == 0
NaN == -2147483647

Min(a, b) == IF a < b THEN a ELSE b

(***************************************************************************)
(* f32 arithmetic.                                                         *)
(***************************************************************************)
RECURSIVE Ulp(_)
Ulp(x) == IF x < 16777216 THEN 1 ELSE 2 * Ulp(x \div 2)

RoundMag(x) ==
    LET q  == Ulp(x)
        lo == (x \div q) * q
        r  == x - lo
    IN  IF 2 * r < q THEN lo
        ELSE IF 2 * r > q THEN lo + q
        ELSE IF (lo \div q) % 2 = 0 THEN lo ELSE lo + q

FRound(x) == IF x < 0 THEN 0 - RoundMag(0 - x) ELSE RoundMag(x)

F64ToF32(x) == IF x = NaN THEN NaN ELSE FRound(x)

FAdd(a, b) == IF a = NaN \/ b = NaN THEN NaN ELSE FRound(a + b)

FSub(a, b) == IF a = NaN \/ b = NaN THEN NaN ELSE FRound(a - b)

FMin(a, b) == IF a = NaN THEN b ELSE IF b = NaN THEN a ELSE IF a < b THEN a ELSE b

FMax(a, b) == IF a = NaN THEN b ELSE IF b = NaN THEN a ELSE IF a > b THEN a ELSE b

FGt(a, b) == a # NaN /\ b # NaN /\ a > b

FLe(a, b) == a # NaN /\ b # NaN /\ a <= b

FClamp(x, lo, hi) ==
    IF x = NaN THEN NaN ELSE IF x < lo THEN lo ELSE IF x > hi THEN hi ELSE x

(***************************************************************************)
(* play_audio: the inputs of a call and what is resolved from them.        *)
(***************************************************************************)
None == <<>>
Some(v) == <<v>>

DurationFlags == {None, Some(-10), Some(0), Some(4), Some(300)}
DecoderDurations == {None, Some(900)}
HeaderDurations == {None, Some(0), Some(600)}
AmplifyFlags == {None, Some(NaN), Some(-268435456), Some(10737418),
                 Some(536870913), Some(1057635712), Some(1610612736)}
\* NaN; -0.5; 0.02; 1.0 + 2^-29 (not an f32); 1.97; 3.0

load_duration_from(flag) ==
    IF flag # None /\ flag[1] >= 0 THEN Some(flag[1]) ELSE None

source_duration_KeepZero(decoder, lofty) ==
    IF decoder # None THEN decoder ELSE lofty

source_duration(decoder, lofty) ==
    IF decoder # None THEN decoder
    ELSE IF lofty # None /\ lofty[1] # 0 THEN lofty
    ELSE None

sleep_duration(flag, decoder, lofty) ==
    IF load_duration_from(flag) # None THEN load_duration_from(flag)[1]
    ELSE IF source_duration(decoder, lofty) # None THEN source_duration(decoder, lofty)[1]
    ELSE FALLBACK_DURATION

initial_volume(amplify) ==
    IF amplify # None THEN FClamp(F64ToF32(amplify[1]), F32_ZERO, VOLUME_MAX)
    ELSE F32_ONE

(***************************************************************************)
(* The rodio Sink, as far as the session commands and reads it.            *)
(***************************************************************************)
AdvanceSteps == {2, 36000}

SinkCap == total + MaxOvershoot

\* The position the sink has reached `d` later: a paused or stopped sink
\* stands still; the position may pass the stream's nominal duration.
SinkAdvance(s, d) ==
    IF s.paused \/ s.stopped THEN s
    ELSE [s EXCEPT !.pos = Min(s.pos + d, SinkCap)]

SinkApply(s, c) ==
    CASE c.op = "play"       -> [s EXCEPT !.paused = FALSE]
      [] c.op = "pause"      -> [s EXCEPT !.paused = TRUE]
      [] c.op = "stop"       -> [s EXCEPT !.stopped = TRUE, !.empty = TRUE]
      [] c.op = "set_volume" -> [s EXCEPT !.volume = c.arg]
      [] c.op = "try_seek"   -> IF c.ok THEN [s EXCEPT !.pos = c.arg] ELSE s

RECURSIVE SinkApplyAll(_, _)
SinkApplyAll(s, cs) ==
    IF cs = <<>> THEN s ELSE SinkApplyAll(SinkApply(s, Head(cs)), Tail(cs))

Cmd(op, arg, ok) == [op |-> op, arg |-> arg, ok |-> ok]

(***************************************************************************)
(* The terminal: raw mode, cursor visibility, the cursor's row relative to *)
(* the row it was on when the session began, and what each row shows.      *)
(***************************************************************************)
Rows == -1 .. 1
Widths == {39, 40}

TermInit ==
    [raw |-> FALSE, hidden |-> FALSE, row |-> 0,
     lines |-> [r \in Rows |-> IF r = -1 THEN "foreign" ELSE "blank"]]

TermApply(t, c) ==
    CASE c = "Hide"        -> [t EXCEPT !.hidden = TRUE]
      [] c = "Show"        -> [t EXCEPT !.hidden = FALSE]
      [] c = "MoveUp"      -> [t EXCEPT !.row = t.row - 1]
      [] c = "Newline"     -> [t EXCEPT !.row = t.row + 1]
      [] c = "MoveToColumn0" -> t
      [] c = "ClearLine"   -> [t EXCEPT !.lines[t.row] = "blank"]
      [] c = "WriteHeader" -> [t EXCEPT !.lines[t.row] = "header"]
      [] c = "WriteProgress" -> [t EXCEPT !.lines[t.row] = "progress"]
      [] c = "EnableRaw"   -> [t EXCEPT !.raw = TRUE]
      [] c = "DisableRaw"  -> [t EXCEPT !.raw = FALSE]

RECURSIVE TermApplyAll(_, _)
TermApplyAll(t, cs) ==
    IF cs = <<>> THEN t ELSE TermApplyAll(TermApply(t, Head(cs)), Tail(cs))

Count(cs, c) == Cardinality({i \in DOMAIN cs : cs[i] = c})

(***************************************************************************)
(* render_progress: the frame it is asked to draw and what it sends to the *)
(* terminal.                                                               *)
(***************************************************************************)
Frame(elapsed, is_paused, vol, first, width) ==
    [elapsed |-> elapsed, paused |-> is_paused, volume |-> vol,
     first |-> first, written |-> width >= MIN_RENDER_WIDTH]

render_progress_Unguarded(hdr, first, width) ==
    (IF hdr
     THEN (IF first THEN <<"Newline">> ELSE <<>>)
          \o <<"MoveUp", "MoveToColumn0", "WriteHeader", "Newline">>
     ELSE <<>>)
    \o <<"MoveToColumn0", "WriteProgress">>

render_progress(hdr, first, width) ==
    IF width < MIN_RENDER_WIDTH THEN <<>>
    ELSE (IF hdr
          THEN (IF first THEN <<"Newline">> ELSE <<>>)
               \o <<"MoveUp", "MoveToColumn0", "WriteHeader", "Newline">>
          ELSE <<>>)
         \o <<"MoveToColumn0", "WriteProgress">>

(***************************************************************************)
(* wait_with_progress: the pieces of one loop iteration.                   *)
(***************************************************************************)
KeyCodes == {" ", "Right", "l", "Left", "h", "Up", "k", "Down", "j", "m",
             "q", "Esc", "x"}
NoEvent == [type |-> "none", code |-> "", kind |-> ""]
KeyPress(c) == [type |-> "key", code |-> c, kind |-> "press"]
Events == {NoEvent} \cup {KeyPress(c) : c \in KeyCodes}
          \cup {[type |-> "key", code |-> "q", kind |-> "release"],
                [type |-> "resize", code |-> "", kind |-> ""]}
SleepTimes == {KEY_POLL_INTERVAL, KEY_POLL_INTERVAL + 1}

IsPress(ev) == ev.type = "key" /\ ev.kind = "press"
SpaceKeys_AndMute == {" ", "m"}
SpaceKeys == {" "}
ForwardKeys == {"Right", "l"}
BackKeys == {"Left", "h"}
UpKeys == {"Up", "k"}
DownKeys == {"Down", "j"}
MuteKeys == {"m"}
QuitKeys == {"q", "Esc"}

ClampPosition_Unclamped(p) == p

ClampPosition(p) == Min(p, total)

EndOfPlayback_PauseTimeout(p, emp) == p >= total \/ emp \/ (paused /\ ticks >= 1)

EndOfPlayback_Strict(p, emp) == p > total \/ emp

EndOfPlayback(p, emp) == p >= total \/ emp

SeekForwardTarget_Unclamped(p) == p + SEEK_STEP

SeekForwardTarget(p) == Min(p + SEEK_STEP, total)

SeekBackTarget(p) == IF p >= SEEK_STEP THEN p - SEEK_STEP ELSE 0

VolumeUp_Exact(v) == FMin(v + VOLUME_STEP, VOLUME_MAX)

VolumeUp(v) == FMin(FAdd(v, VOLUME_STEP), VOLUME_MAX)

VolumeDown(v) == FMax(FSub(v, VOLUME_STEP), F32_ZERO)

Remember_Always(v, pm) == v

Remember(v, pm) == IF FGt(v, F32_ZERO) THEN v ELSE pm

Unmute_NoFloor(pm) == pm

Unmute(pm) == FMax(pm, VOLUME_STEP)

\* `let _ = sink.try_seek(target);` (lines 382, 388): the Result is dropped,
\* so a seek the sink rejects does not end the loop.
SeekFailureEnds_Always(seek_ok) == ~seek_ok

SeekFailureEnds(seek_ok) == FALSE

\* sink.set_volume(volume) follows each assignment to volume (lines 395, 402,
\* 410, 413).
SetVolumeCmd_Skipped(v) == <<>>

SetVolumeCmd(v) == <<Cmd("set_volume", v, TRUE)>>

Effect(p, v, pm, cmds, nr, quit) ==
    [paused |-> p, volume |-> v, pre |-> pm, cmds |-> cmds,
     needs_render |-> nr, quit |-> quit]

NoEffect == Effect(paused, volume, pre_mute_volume, <<>>, FALSE, FALSE)

\* The match on the key code of a key press (lines 372-422).
KeyEffect(code, seek_ok, pos) ==
    CASE code \in SpaceKeys ->
           Effect(~paused, volume, pre_mute_volume,
                  <<Cmd(IF paused THEN "play" ELSE "pause", 0, TRUE)>>, TRUE, FALSE)
      [] code \in ForwardKeys ->
           Effect(paused, volume, pre_mute_volume,
                  <<Cmd("try_seek", SeekForwardTarget(pos), seek_ok)>>, TRUE,
                  SeekFailureEnds(seek_ok))
      [] code \in BackKeys ->
           Effect(paused, volume, pre_mute_volume,
                  <<Cmd("try_seek", SeekBackTarget(pos), seek_ok)>>, TRUE,
                  SeekFailureEnds(seek_ok))
      [] code \in UpKeys ->
           Effect(paused, VolumeUp(volume), Remember(VolumeUp(volume), pre_mute_volume),
                  SetVolumeCmd(VolumeUp(volume)), TRUE, FALSE)
      [] code \in DownKeys ->
           Effect(paused, VolumeDown(volume), Remember(VolumeDown(volume), pre_mute_volume),
                  SetVolumeCmd(VolumeDown(volume)), TRUE, FALSE)
      [] code \in MuteKeys ->
           IF FGt(volume, F32_ZERO)
           THEN Effect(paused, F32_ZERO, volume,
                       SetVolumeCmd(F32_ZERO), TRUE, FALSE)
           ELSE Effect(paused, Unmute(pre_mute_volume), pre_mute_volume,
                       SetVolumeCmd(Unmute(pre_mute_volume)), TRUE, FALSE)
      [] code \in QuitKeys ->
           Effect(paused, volume, pre_mute_volume, <<Cmd("stop", 0, TRUE)>>, FALSE, TRUE)
      [] OTHER -> NoEffect

\* Lines 368-426: the keyboard is polled only in an interactive session and
\* only a key press is acted on.
EventEffect(ev, seek_ok, pos) ==
    IF interactive /\ IsPress(ev) THEN KeyEffect(ev.code, seek_ok, pos) ELSE NoEffect

ShouldRender_PeriodicOnly(needs_render) == since_render >= RENDER_INTERVAL

ShouldRender_Always(needs_render) == TRUE

ShouldRender(needs_render) == needs_render \/ since_render >= RENDER_INTERVAL

\* Where `?` at line 364 takes control when the check fails: out of the
\* closure, past the render call of line 436, to the teardown.
CancelExit_ThroughFinalRender == "final_render"

CancelExit == "teardown"

\* engine.signals().check(): Err when an interrupt has been raised (line 364).
SignalsCheck_Never(intr) == FALSE

SignalsCheck(intr) == intr

\* The `break` of lines 360-362 comes before the check of line 364: an
\* iteration that finds playback ended leaves the loop whether or not an
\* interrupt has been raised.
BreakAtEnd_CancelFirst(ended, intr) == ended /\ ~SignalsCheck(intr)

BreakAtEnd(ended, intr) == ended

EmptyLog ==
    [pos |-> 0, cancel |-> FALSE, ev |-> NoEvent, cmds |-> <<>>, frames |-> <<>>,
     exit |-> "none", write_ok |-> TRUE]

\* `let _ = err.write_all(&buf); let _ = err.flush();` (lines 614-615): the
\* Results are dropped, so a write that fails does not end the loop.  A write
\* that fails is taken to have put nothing on the terminal.
WriteFailureEnds_Always(write_ok) == ~write_ok

WriteFailureEnds(write_ok) == FALSE

Written(frame, write_ok) == [frame EXCEPT !.written = @ /\ write_ok]

TeardownCmds_NoDisable(inter, hdr) ==
    IF hdr
    THEN <<"MoveToColumn0", "ClearLine", "Show", "MoveUp", "MoveToColumn0", "ClearLine">>
    ELSE <<"Show", "MoveToColumn0", "ClearLine">>

TeardownCmds_ShowTwice(inter, hdr) ==
    (IF inter THEN <<"DisableRaw">> ELSE <<>>)
    \o (IF hdr
        THEN <<"Show", "MoveToColumn0", "ClearLine", "Show", "MoveUp", "MoveToColumn0",
               "ClearLine">>
        ELSE <<"Show", "MoveToColumn0", "ClearLine">>)

TeardownCmds_NoClear(inter, hdr) ==
    (IF inter THEN <<"DisableRaw">> ELSE <<>>) \o <<"Show">>

TeardownCmds(inter, hdr) ==
    (IF inter THEN <<"DisableRaw">> ELSE <<>>)
    \o (IF hdr
        THEN <<"MoveToColumn0", "ClearLine", "Show", "MoveUp", "MoveToColumn0", "ClearLine">>
        ELSE <<"Show", "MoveToColumn0", "ClearLine">>)

RawFailureCmds_NoShow == <<>>

RawFailureCmds == <<"Show">>

(***************************************************************************)
(* The state before `sound play` runs.                                     *)
(***************************************************************************)
NoCall == [flag |-> <<>>, decoder |-> <<>>, lofty |-> <<>>, amplify |-> <<>>]
NoLayout == [done |-> FALSE]
NoProbe == [done |-> FALSE]

Fresh ==
    /\ pc = "play_audio"
    /\ result = "none"
    /\ total = 0
    /\ interactive = FALSE
    /\ header = FALSE
    /\ position = 0
    /\ paused = FALSE
    /\ volume = F32_ONE
    /\ pre_mute_volume = F32_ONE
    /\ first_render = TRUE
    /\ since_render = 0
    /\ wall = 0
    /\ sink = [pos |-> 0, paused |-> FALSE, volume |-> F32_ONE,
               stopped |-> FALSE, empty |-> FALSE]
    /\ interrupted = FALSE
    /\ term = TermInit
    /\ ticks = 0
    /\ tick_log = EmptyLog
    /\ final_frame = <<>>
    /\ n_show = 0
    /\ n_clear = 0
    /\ exit_reason = "none"

Init ==
    /\ Fresh
    /\ call = NoCall
    /\ layout = NoLayout
    /\ probe = NoProbe
    /\ pending = <<>>

(***************************************************************************)
(* play_audio (lines 192-251).  setup_ok is false when the file, the       *)
(* output stream or the decoder cannot be opened.  The tagged file gives   *)
(* title, artist and the container-header duration together; wait_silent   *)
(* is not handed title and artist, so they are drawn for a progress        *)
(* session only.                                                           *)
(***************************************************************************)
PlayAudioWith(inp) ==
    /\ pc = "play_audio"
    /\ \E setup_ok \in BOOLEAN :
         IF ~setup_ok
         THEN /\ result' = "err_setup"
              /\ exit_reason' = "setup_error"
              /\ pc' = "returned"
              /\ UNCHANGED <<total, header, volume, pre_mute_volume, sink>>
         ELSE \E flag \in inp.flags, decoder \in inp.decoders,
                 lofty \in inp.headers, amplify \in inp.amplifies,
                 no_progress \in inp.modes, title \in inp.tags, artist \in inp.tags :
                /\ (title \/ artist) => lofty # None
                /\ no_progress => ~(title \/ artist)
                /\ total' = sleep_duration(flag, decoder, lofty)
                /\ sink' = SinkApply(sink, Cmd("set_volume", initial_volume(amplify), TRUE))
                /\ header' = (title \/ artist)
                /\ volume' = IF no_progress THEN volume ELSE initial_volume(amplify)
                /\ pre_mute_volume' = IF no_progress THEN pre_mute_volume
                                      ELSE initial_volume(amplify)
                /\ pc' = IF no_progress THEN "silent" ELSE "progress_start"
                /\ UNCHANGED <<result, exit_reason>>
    /\ UNCHANGED <<interactive, position, paused, first_render, since_render, wall,
                   interrupted, term, ticks, tick_log, final_frame, n_show, n_clear>>
    /\ UNCHANGED aux

ControlAmplifyFlags == {None, Some(1610612736)}

Inputs ==
    [flags |-> DurationFlags, decoders |-> DecoderDurations,
     headers |-> HeaderDurations, amplifies |-> ControlAmplifyFlags,
     modes |-> BOOLEAN, tags |-> BOOLEAN]

PlayAudio == PlayAudioWith(Inputs)

(***************************************************************************)
(* wait_silent (lines 287-301): one evaluation of the loop condition and,  *)
(* when it holds, one iteration.                                           *)
(***************************************************************************)
SilentTick ==
    /\ pc = "silent"
    /\ ticks < MaxTicks
    /\ \E emp \in BOOLEAN :
         LET s1 == [sink EXCEPT !.empty = sink.empty \/ emp]
         IN  /\ sink' = s1
             /\ IF wall < total /\ ~s1.empty
                THEN IF SignalsCheck(interrupted)
                     THEN /\ result' = "err_cancel"
                          /\ exit_reason' = "silent_cancel"
                          /\ pc' = "returned"
                          /\ UNCHANGED <<wall, ticks>>
                     ELSE /\ \E slept \in SleepTimes : wall' = Min(wall + slept, total)
                          /\ ticks' = ticks + 1
                          /\ UNCHANGED <<result, exit_reason, pc>>
                ELSE /\ result' = "ok"
                     /\ exit_reason' = IF wall >= total THEN "silent_total" ELSE "silent_empty"
                     /\ pc' = "returned"
                     /\ UNCHANGED <<wall, ticks>>
    /\ UNCHANGED <<total, interactive, header, position, paused, volume,
                   pre_mute_volume, first_render, since_render, interrupted, term,
                   tick_log, final_frame, n_show, n_clear>>
    /\ UNCHANGED aux

(***************************************************************************)
(* wait_with_progress up to the loop (lines 318-351).  last_render starts  *)
(* RENDER_INTERVAL in the past, or now when the clock cannot go back that  *)
(* far (line 322).                                                         *)
(***************************************************************************)
IsInteractive_Strict(t) == t > CONTROLS_THRESHOLD

IsInteractive_Always(t) == TRUE

IsInteractive(t) == t >= CONTROLS_THRESHOLD

ProgressStart ==
    /\ pc = "progress_start"
    /\ interactive' = IsInteractive(total)
    /\ \E sr \in {0, RENDER_INTERVAL} : since_render' = sr
    /\ \E raw_ok \in (IF IsInteractive(total) THEN BOOLEAN ELSE {TRUE}) :
         IF raw_ok
         THEN /\ term' = TermApplyAll(term, <<"Hide">> \o
                           (IF IsInteractive(total) THEN <<"EnableRaw">> ELSE <<>>))
              /\ pc' = "loop"
              /\ UNCHANGED <<result, exit_reason, n_show>>
         ELSE /\ term' = TermApplyAll(term, <<"Hide">> \o RawFailureCmds)
              /\ n_show' = n_show + Count(RawFailureCmds, "Show")
              /\ result' = "err_raw"
              /\ exit_reason' = "raw_error"
              /\ pc' = "returned"
    /\ UNCHANGED <<total, header, position, paused, volume, pre_mute_volume,
                   first_render, wall, sink, interrupted, ticks, tick_log, final_frame,
                   n_clear>>
    /\ UNCHANGED aux

(***************************************************************************)
(* One iteration of the loop of wait_with_progress (lines 354-434).        *)
(* d is how far the sink played since the last read, emp whether its queue *)
(* ran out, ev the terminal event pending at the poll, seek_ok whether the *)
(* sink accepts a seek, w the terminal width at a render, slept the time   *)
(* the iteration took.                                                     *)
(***************************************************************************)
LoopRender(pos, eff, w) ==
    IF ShouldRender(eff.needs_render)
    THEN <<Frame(pos, eff.paused, eff.volume, first_render, w)>>
    ELSE <<>>

TickBody(env, capped) ==
    /\ pc = "loop"
    /\ capped => ticks < env.max_ticks
    /\ ticks' = Min(ticks + 1, env.max_ticks)
    /\ \E d \in env.steps, emp \in BOOLEAN :
         LET s1  == [SinkAdvance(sink, d) EXCEPT !.empty = sink.empty \/ emp]
             pos == ClampPosition(s1.pos)
         IN  /\ position' = pos
             /\ IF BreakAtEnd(EndOfPlayback(pos, s1.empty), interrupted)
                THEN /\ sink' = s1
                     /\ pc' = "final_render"
                     /\ exit_reason' = IF pos >= total THEN "total" ELSE "empty"
                     /\ tick_log' = [EmptyLog EXCEPT !.pos = pos, !.cancel = interrupted,
                                                     !.exit = exit_reason']
                     /\ UNCHANGED <<result, paused, volume, pre_mute_volume,
                                    first_render, since_render, term>>
                ELSE IF SignalsCheck(interrupted)
                THEN /\ sink' = s1
                     /\ result' = "err_cancel"
                     /\ pc' = CancelExit
                     /\ exit_reason' = "cancel"
                     /\ tick_log' = [EmptyLog EXCEPT !.pos = pos, !.cancel = interrupted,
                                                     !.exit = "cancel"]
                     /\ UNCHANGED <<paused, volume, pre_mute_volume,
                                    first_render, since_render, term>>
                ELSE \E ev \in (IF interactive THEN env.events ELSE {NoEvent}) :
                     \E seek_ok \in (IF IsPress(ev) /\ ev.code \in ForwardKeys \cup BackKeys
                                     THEN BOOLEAN ELSE {TRUE}) :
                       LET eff == EventEffect(ev, seek_ok, pos)
                       IN  /\ sink' = SinkApplyAll(s1, eff.cmds)
                           /\ paused' = eff.paused
                           /\ volume' = eff.volume
                           /\ pre_mute_volume' = eff.pre
                           /\ IF eff.quit
                              THEN /\ pc' = "final_render"
                                   /\ exit_reason' = "quit"
                                   /\ tick_log' = [pos |-> pos, cancel |-> interrupted,
                                                   ev |-> ev, cmds |-> eff.cmds,
                                                   frames |-> <<>>, exit |-> "quit",
                                                   write_ok |-> TRUE]
                                   /\ UNCHANGED <<result, first_render, since_render, term>>
                              ELSE \E w \in (IF ShouldRender(eff.needs_render)
                                             THEN env.widths ELSE {MIN_RENDER_WIDTH}) :
                                   \E slept \in env.sleeps :
                                   \E wok \in (IF ShouldRender(eff.needs_render)
                                                  /\ w >= MIN_RENDER_WIDTH
                                               THEN env.write_oks ELSE {TRUE}) :
                                     /\ term' = IF ShouldRender(eff.needs_render) /\ wok
                                                THEN TermApplyAll(term,
                                                       render_progress(header, first_render, w))
                                                ELSE term
                                     /\ first_render' = (first_render
                                                         /\ ~ShouldRender(eff.needs_render))
                                     /\ since_render' =
                                          Min((IF ShouldRender(eff.needs_render)
                                               THEN 0 ELSE since_render) + slept,
                                              RENDER_INTERVAL)
                                     /\ tick_log' = [pos |-> pos, cancel |-> interrupted,
                                                     ev |-> ev, cmds |-> eff.cmds,
                                                     frames |->
                                                       [i \in DOMAIN LoopRender(pos, eff, w)
                                                          |-> Written(LoopRender(pos, eff, w)[i],
                                                                      wok)],
                                                     exit |-> "none", write_ok |-> wok]
                                     /\ pc' = IF WriteFailureEnds(wok) THEN "teardown"
                                                                       ELSE "loop"
                                     /\ UNCHANGED <<result, exit_reason>>
    /\ UNCHANGED <<total, interactive, header, wall, interrupted, final_frame, n_show,
                   n_clear>>

TickWith(env, capped) ==
    /\ TickBody(env, capped)
    /\ UNCHANGED aux

Environment ==
    [steps |-> AdvanceSteps, events |-> Events, widths |-> Widths, sleeps |-> SleepTimes,
     max_ticks |-> MaxTicks, write_oks |-> {TRUE}]

Tick == TickWith(Environment, TRUE)

(***************************************************************************)
(* The render call after the loop and the closure's Ok (lines 436-437).    *)
(***************************************************************************)
FinalElapsed_Full(pos) == total

FinalElapsed(pos) == Min(pos, total)

\* The paused argument of the call of line 436 is the literal `false`.
FinalPaused_AsLeft(is_paused) == is_paused

FinalPaused(is_paused) == FALSE

FinalRenderWith(widths, write_oks) ==
    /\ pc = "final_render"
    /\ \E w \in widths :
       \E wok \in (IF w >= MIN_RENDER_WIDTH THEN write_oks ELSE {TRUE}) :
         /\ final_frame' = Append(final_frame,
                                  Written(Frame(FinalElapsed(position),
                                                FinalPaused(paused), volume,
                                                first_render, w), wok))
         /\ term' = IF wok
                    THEN TermApplyAll(term, render_progress(header, first_render, w))
                    ELSE term
    /\ result' = "ok"
    /\ pc' = "teardown"
    /\ UNCHANGED <<total, interactive, header, position, paused, volume,
                   pre_mute_volume, first_render, since_render, wall, sink,
                   interrupted, ticks, tick_log, n_show, n_clear, exit_reason>>
    /\ UNCHANGED aux

FinalRender == FinalRenderWith(Widths, {TRUE})

(***************************************************************************)
(* Teardown and return (lines 440-450).                                    *)
(***************************************************************************)
Teardown ==
    /\ pc = "teardown"
    /\ term' = TermApplyAll(term, TeardownCmds(interactive, header))
    /\ n_show' = n_show + Count(TeardownCmds(interactive, header), "Show")
    /\ n_clear' = n_clear + Count(TeardownCmds(interactive, header), "ClearLine")
    /\ pc' = "returned"
    /\ UNCHANGED <<result, total, interactive, header, position, paused, volume,
                   pre_mute_volume, first_render, since_render, wall, sink,
                   interrupted, ticks, tick_log, final_frame, exit_reason>>
    /\ UNCHANGED aux

(***************************************************************************)
(* The caller's interrupt signal, raised at any moment of a run.           *)
(***************************************************************************)
RaiseCancel ==
    /\ pc # "returned"
    /\ ~interrupted
    /\ interrupted' = TRUE
    /\ UNCHANGED <<pc, result, total, interactive, header, position, paused, volume,
                   pre_mute_volume, first_render, since_render, wall, sink, term,
                   ticks, tick_log, final_frame, n_show, n_clear, exit_reason>>
    /\ UNCHANGED aux

Next ==
    \/ PlayAudio
    \/ SilentTick
    \/ ProgressStart
    \/ Tick
    \/ FinalRender
    \/ Teardown
    \/ RaiseCancel

Spec == Init /\ [][Next]_vars

(***************************************************************************)
(* The session under every initial volume, with the volume keys.           *)
(***************************************************************************)
VolumeEvents ==
    {NoEvent} \cup {KeyPress(c) : c \in UpKeys \cup DownKeys \cup MuteKeys \cup {"q"}}

PlayAudioVolume ==
    PlayAudioWith([Inputs EXCEPT !.flags = {None, Some(300)}, !.amplifies = AmplifyFlags,
                                 !.modes = {FALSE}])

TickVolume == TickWith([Environment EXCEPT !.events = VolumeEvents], TRUE)

NextVolume ==
    \/ PlayAudioVolume
    \/ ProgressStart
    \/ TickVolume
    \/ FinalRender
    \/ Teardown

VolumeSpec == Init /\ [][NextVolume]_vars

(***************************************************************************)
(* The session run to its end: the loop is not bounded, the sink position  *)
(* advances at every read of a sink that is playing, and the thread that   *)
(* runs the session keeps taking its steps.                                *)
(***************************************************************************)
LiveAdvanceSteps == {SEEK_STEP, 18000}

LiveEvents ==
    {NoEvent} \cup {KeyPress(c) : c \in {" ", "Left", "q"}}

PlayAudioLive ==
    PlayAudioWith([flags |-> {None}, decoders |-> {None}, headers |-> {None, Some(600)},
                   amplifies |-> {None}, modes |-> {FALSE}, tags |-> {FALSE}])

TickLive ==
    TickWith([steps |-> LiveAdvanceSteps, events |-> LiveEvents, widths |-> {80},
              sleeps |-> {KEY_POLL_INTERVAL + 1}, max_ticks |-> MaxTicks,
              write_oks |-> {TRUE}], FALSE)

FinalRenderLive == FinalRenderWith({80}, {TRUE})

NextLive ==
    \/ PlayAudioLive
    \/ ProgressStart
    \/ TickLive
    \/ FinalRenderLive
    \/ Teardown
    \/ RaiseCancel

LiveSpec ==
    /\ Init
    /\ [][NextLive]_vars
    /\ WF_vars(PlayAudioLive)
    /\ WF_vars(ProgressStart)
    /\ WF_vars(TickLive)
    /\ WF_vars(FinalRenderLive)
    /\ WF_vars(Teardown)

(***************************************************************************)
(* play_audio on its own, for every combination of the -d flag, the        *)
(* decoder's total_duration() and the duration in the container header.    *)
(***************************************************************************)
ResolveFlags == {None, Some(-10), Some(0), Some(300)}
ResolveDecoders == {None, Some(0), Some(1200)}
ResolveHeaders == {None, Some(0), Some(900)}

InitResolve ==
    /\ Fresh
    /\ call \in [flag : ResolveFlags, decoder : ResolveDecoders, lofty : ResolveHeaders,
                  amplify : {None}]
    /\ layout = NoLayout
    /\ probe = NoProbe
    /\ pending = <<>>

PlayAudioResolve ==
    PlayAudioWith([flags |-> {call.flag}, decoders |-> {call.decoder},
                   headers |-> {call.lofty}, amplifies |-> {call.amplify},
                   modes |-> BOOLEAN, tags |-> BOOLEAN])

NextResolve ==
    \/ PlayAudioResolve
    \/ ProgressStart

ResolveSpec == InitResolve /\ [][NextResolve]_vars

(***************************************************************************)
(* Progress sessions of a track shorter than CONTROLS_THRESHOLD, under     *)
(* every initial volume, with and without a header.                        *)
(***************************************************************************)
ShortFlags == {Some(4), Some(300)}

PlayAudioShort ==
    PlayAudioWith([Inputs EXCEPT !.flags = ShortFlags, !.headers = {None, Some(600)},
                                 !.amplifies = AmplifyFlags, !.modes = {FALSE}])

NextShort ==
    \/ PlayAudioShort
    \/ ProgressStart
    \/ Tick
    \/ FinalRender
    \/ Teardown
    \/ RaiseCancel

ShortSpec == Init /\ [][NextShort]_vars

(***************************************************************************)
(* Interactive sessions of a 90 s track on a terminal wide enough to draw  *)
(* on, under every key and two initial volumes.                            *)
(***************************************************************************)
KeyAmplifyFlags == {None, Some(10737418)}

PlayAudioKeys ==
    PlayAudioWith([flags |-> {None}, decoders |-> {Some(900)}, headers |-> {None},
                   amplifies |-> KeyAmplifyFlags, modes |-> {FALSE}, tags |-> {FALSE}])

TickKeys == TickWith([Environment EXCEPT !.widths = {MIN_RENDER_WIDTH}], TRUE)

FinalRenderKeys == FinalRenderWith({MIN_RENDER_WIDTH}, {TRUE})

NextKeys ==
    \/ PlayAudioKeys
    \/ ProgressStart
    \/ TickKeys
    \/ FinalRenderKeys
    \/ Teardown
    \/ RaiseCancel

KeySpec == Init /\ [][NextKeys]_vars

(***************************************************************************)
(* A session at the default volume in which an up key is waiting at every  *)
(* poll (the key is held down), for up to MaxPresses iterations.           *)
(***************************************************************************)
UpEvents == {KeyPress(c) : c \in UpKeys}

PlayAudioUp ==
    PlayAudioWith([flags |-> {None}, decoders |-> {None}, headers |-> {None},
                   amplifies |-> {None}, modes |-> {FALSE}, tags |-> {FALSE}])

TickUp ==
    TickWith([steps |-> {KEY_POLL_INTERVAL, KEY_POLL_INTERVAL + 1}, events |-> UpEvents,
              widths |-> {MIN_RENDER_WIDTH}, sleeps |-> {KEY_POLL_INTERVAL},
              max_ticks |-> MaxPresses, write_oks |-> {TRUE}], TRUE)

NextUp ==
    \/ PlayAudioUp
    \/ ProgressStart
    \/ TickUp
    \/ FinalRenderKeys
    \/ Teardown

UpSpec == Init /\ [][NextUp]_vars

(***************************************************************************)
(* render_progress, lines 482-556: the widths of the pieces of the         *)
(* progress line and the widths chosen for the two bars.  Widths are       *)
(* terminal columns as unicode-width counts them.                          *)
(***************************************************************************)
IconSets == {"NerdFont", "Unicode", "Ascii"}

music_width(icons) == 1
play_width(icons) == 1
pause_width(icons) == IF icons = "Ascii" THEN 2 ELSE 1
rewind_width(icons) == IF icons = "Ascii" THEN 2 ELSE 1
fast_forward_width(icons) == IF icons = "Ascii" THEN 2 ELSE 1
volume_icon_width(icons) ==
    CASE icons = "NerdFont" -> 1
      [] icons = "Unicode"  -> 2
      [] icons = "Ascii"    -> 3

RECURSIVE Digits(_)
Digits(n) == IF n < 10 THEN 1 ELSE 1 + Digits(n \div 10)

\* utils::format_duration: "h:mm:ss" when hours > 0, else "m:ss".
format_duration_width(d) ==
    LET total_secs == d \div 10
        hours      == total_secs \div 3600
        minutes    == (total_secs % 3600) \div 60
    IN  IF hours > 0 THEN Digits(hours) + 6 ELSE Digits(minutes) + 3

\* (ratio * 100.0).round() as u8, ratio clamped to [0, 1] (lines 484-489).
percent(elapsed, tot) ==
    IF tot = 0 THEN 0 ELSE (200 * Min(elapsed, tot) + tot) \div (2 * tot)

\* (volume.min(VOLUME_MAX) * 100.0).round() as u8 (line 490): v * 100 / 2^29
\* rounded to nearest, computed in two halves of v to stay within 32 bits.
vol_pct(vol) ==
    LET v == FMin(vol, VOLUME_MAX)
        hi == v \div 4194304
        lo == v % 4194304
    IN  IF v <= 0 THEN 0 ELSE (200 * hi + 128 + (200 * lo) \div 4194304) \div 256

prefix_width(icons) == IF icons = "NerdFont" THEN music_width(icons) + 1 ELSE 0

controls_suffix_width(inter, icons) ==
    IF inter THEN 50 + rewind_width(icons) + fast_forward_width(icons) ELSE 0

overhead(elapsed, tot, is_paused, vol, inter, icons) ==
    prefix_width(icons)
    + (IF is_paused THEN pause_width(icons) ELSE play_width(icons))
    + 2 + format_duration_width(elapsed) + 3 + format_duration_width(tot)
    + 2 + 2 + 2 + Digits(percent(elapsed, tot)) + 1
    + 2 + volume_icon_width(icons) + 1 + 2 + 1 + Digits(vol_pct(vol)) + 1
    + controls_suffix_width(inter, icons)

SaturatingSub(a, b) == IF a >= b THEN a - b ELSE 0
Max(a, b) == IF a > b THEN a ELSE b
Clamp(x, lo, hi) == IF x < lo THEN lo ELSE IF x > hi THEN hi ELSE x

\* Lines 512-556; size is the Result of crossterm's size(): None when it fails.
BarLayout(cols, ovh) ==
    LET available == SaturatingSub(cols, ovh)
        min_vol   == 5
        max_bar   == SaturatingSub(available, min_vol)
        target    == (available * 3) \div 4
        bar1      == IF target >= 15 THEN target
                     ELSE SaturatingSub(available, min_vol)
        bar2      == Min(Clamp(bar1, 10, 60), max_bar)
        vol_bar   == Max(bar2 \div 3, min_vol)
    IN  [bar_width |-> IF bar2 + vol_bar > available
                       THEN Max(SaturatingSub(available, vol_bar), 10)
                       ELSE bar2,
         vol_bar_width |-> vol_bar]

BarWidths_Assume80(size, ovh) == BarLayout(IF size = None THEN 80 ELSE size[1], ovh)

BarWidths(size, ovh) ==
    IF size = None THEN [bar_width |-> 30, vol_bar_width |-> 10]
    ELSE BarLayout(size[1], ovh)

\* Lines 579-594: the header is cut to the terminal width, an ellipsis
\* taking the place of what is cut; the width is 80 when size() fails.  The
\* header's characters are one column wide each.
HeaderTermWidth(size) == IF size = None THEN 80 ELSE size[1]

ellipsis_width(icons) == IF icons = "Ascii" THEN 3 ELSE 1

HeaderShown(hdr_width, size, icons) ==
    IF hdr_width > HeaderTermWidth(size)
    THEN SaturatingSub(HeaderTermWidth(size), ellipsis_width(icons))
         + ellipsis_width(icons)
    ELSE hdr_width

(***************************************************************************)
(* One render_progress call on its own, for every terminal width, icon     *)
(* set, mode, position and volume below.                                   *)
(***************************************************************************)
SizeResults == {None, Some(39), Some(40), Some(41), Some(45), Some(60), Some(80),
                Some(100), Some(140), Some(200)}
LayoutTotals == {300, 900, FALLBACK_DURATION}
LayoutElapsed == {0, 20, 300, 6000}
HeaderWidths == {12, 80, 81, 130}
LayoutVolumes == {F32_ZERO, 10737418, F32_ONE, VOLUME_MAX}

session == <<pc, result, total, interactive, header, position, paused, volume,
             pre_mute_volume, first_render, since_render, wall, sink, interrupted,
             term, ticks, tick_log, final_frame, n_show, n_clear, exit_reason>>

\* size().map(|(w, _)| w).unwrap_or(u16::MAX) (line 478).
RenderWidth(size) == IF size = None THEN 65535 ELSE size[1]

InitLayout ==
    /\ Fresh
    /\ call = NoCall
    /\ probe = NoProbe
    /\ pending = <<>>
    /\ \E sz \in SizeResults, ic \in IconSets, tot \in LayoutTotals,
          el \in LayoutElapsed, ps \in BOOLEAN, vol \in LayoutVolumes,
          hdr \in BOOLEAN, first \in BOOLEAN,
          hw \in HeaderWidths :
          /\ el <= tot
          /\ ~hdr => hw = 12
          /\ layout = [done |-> FALSE, size |-> sz, icons |-> ic, total |-> tot,
                       elapsed |-> el, paused |-> ps, volume |-> vol,
                       interactive |-> IsInteractive(tot),
                       header |-> hdr, first_render |-> first,
                       hdr_width |-> hw, hdr_shown |-> 0,
                       overhead |-> 0, bar_width |-> 0, vol_bar_width |-> 0,
                       buffers |-> <<>>]

\* buffers is what err.write_all is handed (line 614), one entry a call.
RenderLayout ==
    /\ ~layout.done
    /\ LET ovh  == overhead(layout.elapsed, layout.total, layout.paused, layout.volume,
                            layout.interactive, layout.icons)
           bars == BarWidths(layout.size, ovh)
           buf  == render_progress(layout.header, layout.first_render,
                                   RenderWidth(layout.size))
       IN  IF buf = <<>>
           THEN layout' = [layout EXCEPT !.done = TRUE]
           ELSE layout' = [layout EXCEPT !.done = TRUE, !.overhead = ovh,
                                         !.bar_width = bars.bar_width,
                                         !.vol_bar_width = bars.vol_bar_width,
                                         !.hdr_shown =
                                            IF layout.header
                                            THEN HeaderShown(layout.hdr_width, layout.size,
                                                             layout.icons)
                                            ELSE 0,
                                         !.buffers = <<buf>>]
    /\ UNCHANGED <<session, call, probe, pending>>

LayoutSpec == InitLayout /\ [][RenderLayout]_vars

(***************************************************************************)
(* The session under --no-progress: play_audio hands over to wait_silent   *)
(* (lines 243-245).                                                        *)
(***************************************************************************)
PlayAudioSilent ==
    PlayAudioWith([Inputs EXCEPT !.flags = ShortFlags, !.decoders = {Some(900)},
                                 !.headers = {None}, !.amplifies = AmplifyFlags,
                                 !.modes = {TRUE}, !.tags = {FALSE}])

NextSilent ==
    \/ PlayAudioSilent
    \/ SilentTick
    \/ RaiseCancel

SilentSpec == Init /\ [][NextSilent]_vars

(***************************************************************************)
(* resolve_icon_set and terminal_supports_unicode.  A string is a sequence *)
(* of characters; an environment variable is None when std::env::var       *)
(* returns Err.                                                            *)
(***************************************************************************)
LowerLetters == <<"a", "c", "e", "f", "i", "l", "r", "s", "t", "u">>
UpperLetters == <<"A", "C", "E", "F", "I", "L", "R", "S", "T", "U">>

LetterIndex(c, letters) ==
    IF \E i \in DOMAIN letters : letters[i] = c
    THEN CHOOSE i \in DOMAIN letters : letters[i] = c
    ELSE 0

to_lowercase(s) ==
    [i \in DOMAIN s |-> IF LetterIndex(s[i], UpperLetters) # 0
                        THEN LowerLetters[LetterIndex(s[i], UpperLetters)]
                        ELSE s[i]]

to_uppercase(s) ==
    [i \in DOMAIN s |-> IF LetterIndex(s[i], LowerLetters) # 0
                        THEN UpperLetters[LetterIndex(s[i], LowerLetters)]
                        ELSE s[i]]

contains(s, pat) ==
    \E k \in 0..(Len(s) - Len(pat)) : \A i \in DOMAIN pat : s[k + i] = pat[i]

UnwrapOr(opt, default) == IF opt = None THEN default ELSE opt[1]

OrElse(opt, other) == IF opt = None THEN other ELSE opt

Str_1 == <<"1">>
Str_true == <<"t", "r", "u", "e">>
Str_UTF8 == <<"U", "T", "F", "8">>
Str_UTF_8 == <<"U", "T", "F", "-", "8">>

terminal_supports_unicode(env) ==
    IF env.windows
    THEN \/ env.WT_SESSION # None
         \/ env.ConEmuPID # None
         \/ (IF env.TERM_PROGRAM = None THEN FALSE ELSE env.TERM_PROGRAM[1] = "vscode")
         \/ env.ANSICON # None
    ELSE LET lang == to_uppercase(UnwrapOr(OrElse(env.LANG, env.LC_ALL), <<>>))
         IN  contains(lang, Str_UTF_8) \/ contains(lang, Str_UTF8)

nerd_fonts_env(env) ==
    IF env.NERD_FONTS = None
    THEN FALSE
    ELSE env.NERD_FONTS[1] = Str_1 \/ to_lowercase(env.NERD_FONTS[1]) = Str_true

resolve_icon_set_ProbeFirst(flag_result, env) ==
    IF terminal_supports_unicode(env) THEN "Unicode"
    ELSE IF UnwrapOr(flag_result, FALSE) \/ nerd_fonts_env(env) THEN "NerdFont"
    ELSE "Ascii"

resolve_icon_set(flag_result, env) ==
    LET flag == UnwrapOr(flag_result, FALSE)
        env_signal == nerd_fonts_env(env)
    IN  IF flag \/ env_signal THEN "NerdFont"
        ELSE IF terminal_supports_unicode(env) THEN "Unicode"
        ELSE "Ascii"

\* call.has_flag("nerd-fonts"): Ok(true), Ok(false) or Err.
FlagResults == {None, Some(FALSE), Some(TRUE)}

NerdFontsValues ==
    {None, Some(<<>>), Some(<<"0">>), Some(Str_1), Some(<<"1", "1">>), Some(Str_true),
     Some(<<"T", "R", "U", "E">>), Some(<<"T", "r", "u", "e">>),
     Some(<<"t", "r", "u", "e", "s">>)}

LocaleValues ==
    {None, Some(<<>>), Some(<<"C">>), Some(<<"C", ".", "U", "T", "F", "-", "8">>),
     Some(<<"c", ".", "u", "t", "f", "8">>), Some(<<"U", "T", "F">>)}

TermPrograms == {None, Some("vscode"), Some("VSCODE")}

Presence == {None, Some("1")}

Environments ==
    [windows : {FALSE}, NERD_FONTS : NerdFontsValues, LANG : LocaleValues,
     LC_ALL : LocaleValues, WT_SESSION : {None}, ConEmuPID : {None},
     TERM_PROGRAM : {None}, ANSICON : {None}]
    \cup
    [windows : {TRUE}, NERD_FONTS : NerdFontsValues, LANG : {None},
     LC_ALL : {None, Some(<<"C", ".", "U", "T", "F", "-", "8">>)}, WT_SESSION : Presence,
     ConEmuPID : Presence, TERM_PROGRAM : TermPrograms, ANSICON : Presence]

InitIcon ==
    /\ Fresh
    /\ call = NoCall
    /\ layout = NoLayout
    /\ pending = <<>>
    /\ \E f \in FlagResults, e \in Environments :
          probe = [done |-> FALSE, flag |-> f, env |-> e, icons |-> "none"]

ResolveIconSet ==
    /\ ~probe.done
    /\ probe' = [probe EXCEPT !.done = TRUE,
                              !.icons = resolve_icon_set(probe.flag, probe.env)]
    /\ UNCHANGED <<session, call, layout, pending>>

IconSpec == InitIcon /\ [][ResolveIconSet]_vars

(***************************************************************************)
(* audio_meta.rs, audio_meta_set (lines 251-313).  The file on disk is its *)
(* primary tag (None when it has none) and whether a failed save left it   *)
(* torn; a tag is the text it holds for each item key ("" for no item).    *)
(***************************************************************************)
Str_title == <<"t", "i", "t", "l", "e">>
Str_artist == <<"a", "r", "t", "i", "s", "t">>

ItemKeys == {"TrackTitle", "TrackArtist"}

TAG_MAP_get(k) ==
    IF k = Str_title THEN Some("TrackTitle")
    ELSE IF k = Str_artist THEN Some("TrackArtist")
    ELSE None

normalized_key(key) == to_lowercase(key)

NewTag == [k \in ItemKeys |-> ""]

\* tag.insert_text(item_key, value): false when the tag type has no mapping
\* for the key, and then the tag is left as it was.
insert_text_ok_Always(accepts) == TRUE

insert_text_ok(accepts) == accepts

KeyFlags ==
    {None, Some(Str_title), Some(<<"T", "i", "t", "l", "e">>),
     Some(<<"T", "I", "T", "L", "E">>), Some(<<"A", "r", "t", "i", "s", "t">>),
     Some(<<"t", "i", "t", "l", "e", "s">>), Some(<<>>)}

ValueFlags == {None, Some(""), Some("new")}

DiskTags ==
    {None, Some([TrackTitle |-> "", TrackArtist |-> "old"]),
     Some([TrackTitle |-> "old", TrackArtist |-> "old"])}

MetaError(e) == [ok |-> FALSE, err |-> e, meta |-> None]

audio_meta_set(p) ==
    IF ~p.load_ok THEN [p EXCEPT !.result = MetaError("open")]
    ELSE IF p.key = None THEN [p EXCEPT !.result = MetaError("key_flag")]
    ELSE IF p.value = None THEN [p EXCEPT !.result = MetaError("value_flag")]
    ELSE IF ~p.read_ok THEN [p EXCEPT !.result = MetaError("read")]
    ELSE LET item_key == TAG_MAP_get(normalized_key(p.key[1]))
             tag == IF p.disk.tag = None THEN NewTag ELSE p.disk.tag[1]
         IN  IF item_key = None THEN [p EXCEPT !.result = MetaError("unknown_key")]
             ELSE IF ~insert_text_ok(p.accepts)
             THEN [p EXCEPT !.result = MetaError("rejected")]
             ELSE IF ~p.save_ok
             THEN [p EXCEPT !.saves = @ + 1,
                            !.disk.torn = p.torn,
                            !.result = MetaError("save")]
             ELSE LET written == [tag |-> Some([tag EXCEPT ![item_key[1]] = p.value[1]]),
                                  torn |-> FALSE]
                  IN  IF ~p.reopen_ok
                      THEN [p EXCEPT !.saves = @ + 1, !.disk = written,
                                     !.result = MetaError("reopen")]
                      ELSE IF ~p.parse_ok
                      THEN [p EXCEPT !.saves = @ + 1, !.disk = written,
                                     !.result = MetaError("parse")]
                      ELSE [p EXCEPT !.saves = @ + 1, !.disk = written,
                                     !.result = [ok |-> TRUE, err |-> "none",
                                                 meta |-> Some(written)]]

InitMeta ==
    /\ Fresh
    /\ call = NoCall
    /\ layout = NoLayout
    /\ pending = <<>>
    /\ \E k \in KeyFlags, v \in ValueFlags, t \in DiskTags,
          oks \in [{"load", "read", "accepts", "save", "torn", "reopen", "parse"}
                     -> BOOLEAN] :
          probe = [done |-> FALSE, key |-> k, value |-> v,
                   load_ok |-> oks["load"], read_ok |-> oks["read"],
                   accepts |-> oks["accepts"], save_ok |-> oks["save"],
                   torn |-> oks["torn"], reopen_ok |-> oks["reopen"],
                   parse_ok |-> oks["parse"],
                   before |-> [tag |-> t, torn |-> FALSE],
                   disk |-> [tag |-> t, torn |-> FALSE],
                   saves |-> 0,
                   result |-> [ok |-> FALSE, err |-> "none", meta |-> None]]

AudioMetaSet ==
    /\ ~probe.done
    /\ probe' = [audio_meta_set(probe) EXCEPT !.done = TRUE]
    /\ UNCHANGED <<session, call, layout, pending>>

MetaSpec == InitMeta /\ [][AudioMetaSet]_vars

(***************************************************************************)
(* The interactive session with the terminal's event queue: events arrive  *)
(* at any time and wait until event::read takes the oldest (lines 369-370).*)
(* event::poll(Duration::ZERO) says at once whether one is waiting; when   *)
(* it fails, unwrap_or(false) makes the iteration go on as if none were.   *)
(***************************************************************************)
PollError == [type |-> "poll_err", code |-> "", kind |-> ""]

QueueEvents ==
    {KeyPress(c) : c \in {" ", "Up", "q"}}
    \cup {[type |-> "resize", code |-> "", kind |-> ""]}

Consume_All(q) == <<>>

Consume(q) == Tail(q)

KeyArrives ==
    /\ pc \in {"progress_start", "loop"}
    /\ Len(pending) < MaxQueue
    /\ \E ev \in QueueEvents : pending' = Append(pending, ev)
    /\ UNCHANGED <<session, call, layout, probe>>

TickQueue ==
    /\ TickBody([Environment EXCEPT
                    !.events = {IF pending = <<>> THEN NoEvent ELSE Head(pending),
                                PollError},
                    !.steps = {KEY_POLL_INTERVAL},
                    !.widths = {MIN_RENDER_WIDTH},
                    !.sleeps = {KEY_POLL_INTERVAL}], TRUE)
    /\ pending' = IF /\ interactive
                     /\ tick_log'.exit \in {"none", "quit"}
                     /\ pending # <<>>
                     /\ tick_log'.ev # PollError
                  THEN Consume(pending)
                  ELSE pending
    /\ UNCHANGED <<call, layout, probe>>

NextQueue ==
    \/ PlayAudioKeys
    \/ ProgressStart
    \/ KeyArrives
    \/ TickQueue
    \/ FinalRenderKeys
    \/ Teardown

QueueSpec == Init /\ [][NextQueue]_vars

(***************************************************************************)
(* The interactive session of a 90 s track with the seek keys, the sink    *)
(* moving far enough between two reads to come within SEEK_STEP of the end.*)
(***************************************************************************)
SeekAdvanceSteps == {KEY_POLL_INTERVAL, 448}

SeekEvents == {NoEvent} \cup {KeyPress(c) : c \in ForwardKeys \cup BackKeys}

TickSeek ==
    TickWith([Environment EXCEPT !.steps = SeekAdvanceSteps, !.events = SeekEvents,
                                 !.widths = {MIN_RENDER_WIDTH},
                                 !.sleeps = {KEY_POLL_INTERVAL}], TRUE)

NextSeek ==
    \/ PlayAudioKeys
    \/ ProgressStart
    \/ TickSeek
    \/ FinalRenderKeys
    \/ Teardown

SeekSpec == Init /\ [][NextSeek]_vars

(***************************************************************************)
(* render_bar (lines 622-666).  A ratio is a count of sixteenths, so that  *)
(* ratio * width is exact in f64 as it is here; a bar is the sequence of   *)
(* its cells between the brackets.                                         *)
(***************************************************************************)
RatioDen == 16

ClampRatio(r) == Clamp(r, 0, RatioDen)

\* `x as usize` of a float: saturating at 0.
AsUsize(n) == Max(n, 0)

FloorOf(num) == AsUsize(num \div RatioDen)

\* f64::round: halves away from zero.
RoundOf(num) == AsUsize((2 * num + RatioDen) \div (2 * RatioDen))

n_full_AlwaysRound(f_width, width, icons) == Min(RoundOf(f_width), width)

n_full(f_width, width, icons) ==
    IF icons = "NerdFont" THEN Min(FloorOf(f_width), width)
    ELSE Min(RoundOf(f_width), width)

part_idx(f_width, full) == AsUsize(((f_width - full * RatioDen) * 8) \div RatioDen)

Cells(n, c) == [i \in 1 .. n |-> c]

render_bar(ratio, width, icons) ==
    LET f_width == ClampRatio(ratio) * width
        full    == n_full(f_width, width, icons)
        idx     == part_idx(f_width, full)
        partial == IF full < width /\ icons = "NerdFont" /\ idx > 0 /\ idx <= 7
                   THEN <<"partial">> ELSE <<>>
        drawn   == full + Len(partial)
    IN  Cells(full, "fill") \o partial
        \o Cells(IF drawn < width THEN width - drawn ELSE 0, "empty")

BarRatios == -1 .. (RatioDen + 1)

BarWidthArgs == {0, 1, 5, 10, 11, 30, 60}

InitBar ==
    /\ Fresh
    /\ call = NoCall
    /\ layout = NoLayout
    /\ pending = <<>>
    /\ \E r \in BarRatios, w \in BarWidthArgs, ic \in IconSets :
          probe = [done |-> FALSE, ratio |-> r, width |-> w, icons |-> ic, bar |-> <<>>]

RenderBar ==
    /\ ~probe.done
    /\ probe' = [probe EXCEPT !.done = TRUE,
                              !.bar = render_bar(probe.ratio, probe.width, probe.icons)]
    /\ UNCHANGED <<session, call, layout, pending>>

BarSpec == InitBar /\ [][RenderBar]_vars

(***************************************************************************)
(* The interactive session on a terminal whose writes may fail.            *)
(***************************************************************************)
WriteEvents == {NoEvent} \cup {KeyPress(c) : c \in {" ", "Right", "Up", "m", "q"}}

TickWrite ==
    TickWith([Environment EXCEPT !.events = WriteEvents, !.widths = {MIN_RENDER_WIDTH},
                                 !.write_oks = BOOLEAN], TRUE)

FinalRenderWrite == FinalRenderWith({MIN_RENDER_WIDTH}, BOOLEAN)

NextWrite ==
    \/ PlayAudioKeys
    \/ ProgressStart
    \/ TickWrite
    \/ FinalRenderWrite
    \/ Teardown
    \/ RaiseCancel

WriteSpec == Init /\ [][NextWrite]_vars

(***************************************************************************)
(* Properties of the progress session.                                     *)
(***************************************************************************)
AfterLoop == pc \in {"final_render", "teardown", "returned"}
LoopExits == {"total", "empty", "quit", "cancel"}
ProgressText == {"progress", "header"}
AllFrames == tick_log.frames \o final_frame

\* C1: raw mode is on only in an interactive session, between its start and
\* its teardown, and it is off when the function has returned, whichever way
\* the loop was left (elapsed reached total, sink empty, quit key, cancellation).
C1_RawModeScoped ==
    /\ term.raw => interactive /\ pc \in {"loop", "final_render", "teardown"}
    /\ pc = "returned" => ~term.raw

C1_Witness ==
    /\ pc = "returned"
    /\ interactive
    /\ exit_reason = "cancel"
    /\ result = "err_cancel"
    /\ ~term.raw

\* C2: a session left by cancellation in the middle of the loop, by normal
\* completion or by quit has shown the cursor exactly once when it returns,
\* with raw mode off and the cursor visible; the cursor is never shown twice.
C2_ShowExactlyOnce ==
    /\ n_show <= 1
    /\ (pc = "returned" /\ exit_reason \in LoopExits)
          => n_show = 1 /\ ~term.raw /\ ~term.hidden

C2_Witness ==
    /\ pc = "returned"
    /\ exit_reason = "cancel"
    /\ ticks >= 2
    /\ header
    /\ interactive
    /\ n_show = 1

\* C3: when enabling raw mode fails, the function returns the raw-mode error
\* with the cursor shown again, and no loop iteration has run: no position
\* read, no key processed, no frame rendered, no command sent to the sink.
C3_RawFailure ==
    exit_reason = "raw_error" =>
        /\ pc = "returned"
        /\ result = "err_raw"
        /\ interactive
        /\ ~term.hidden
        /\ ~term.raw
        /\ n_show = 1
        /\ ticks = 0
        /\ tick_log = EmptyLog
        /\ final_frame = <<>>
        /\ term.lines = TermInit.lines
        /\ sink.pos = 0 /\ ~sink.paused /\ ~sink.stopped

C3_Witness ==
    /\ exit_reason = "raw_error"
    /\ pc = "returned"
    /\ total = FALLBACK_DURATION

C5_CancelAlwaysError ==
    (tick_log.cancel /\ ticks >= 2) =>
        /\ tick_log.exit = "cancel"
        /\ pc = "returned" => result = "err_cancel"

\* C5 as amended: the first iteration that begins after a cancellation was
\* raised leaves the loop and processes no key event, draws no periodic frame
\* and sends the sink no command; it returns the cancellation error unless
\* playback has ended at that iteration (elapsed >= total or sink empty), in
\* which case the session ends with the final render and success.
C5_CancelOrEnded ==
    (tick_log.cancel /\ ticks >= 2) =>
        /\ AfterLoop
        /\ tick_log.ev = NoEvent
        /\ tick_log.cmds = <<>>
        /\ tick_log.frames = <<>>
        /\ IF position < total /\ ~sink.empty
           THEN tick_log.exit = "cancel" /\ result = "err_cancel" /\ final_frame = <<>>
           ELSE /\ tick_log.exit \in {"total", "empty"}
                /\ result # "err_cancel"
                /\ pc = "returned" => result = "ok"

C5_Witness ==
    /\ tick_log.cancel
    /\ ticks >= 2
    /\ pc = "returned"
    /\ result = "err_cancel"
    /\ interactive

\* C6: with total > 0 the elapsed position is within [0, total] after every
\* iteration and in every frame handed to the renderer, whatever the sink
\* reports (reports beyond total included) and whatever keys are pressed.
C6_ElapsedInRange ==
    total > 0 =>
        /\ 0 <= position /\ position <= total
        /\ \A i \in DOMAIN AllFrames :
              0 <= AllFrames[i].elapsed /\ AllFrames[i].elapsed <= total

C6_Witness ==
    /\ total > 0
    /\ sink.pos > total
    /\ position = total
    /\ final_frame # <<>>
    /\ final_frame[1].elapsed = total

\* C8: a session left by 'q' or Escape processed the key in an interactive
\* session at an elapsed position below total, sent the sink stop() in that
\* iteration, drew no periodic frame in it and read no further position; its
\* final render shows that same position and it returns success.
C8_QuitExit ==
    exit_reason = "quit" =>
        /\ AfterLoop
        /\ interactive
        /\ IsPress(tick_log.ev) /\ tick_log.ev.code \in QuitKeys
        /\ tick_log.cmds = <<Cmd("stop", 0, TRUE)>>
        /\ sink.stopped
        /\ tick_log.frames = <<>>
        /\ position = tick_log.pos
        /\ position < total
        /\ final_frame # <<>> => final_frame[1].elapsed = tick_log.pos
        /\ pc \in {"teardown", "returned"} => result = "ok" /\ final_frame # <<>>

C8_Witness ==
    /\ exit_reason = "quit"
    /\ pc = "returned"
    /\ total = 900
    /\ position > 0
    /\ final_frame[1].elapsed = position
    /\ result = "ok"

\* C9: the loop is left only when elapsed >= total, the sink is empty, a quit
\* key was processed or a cancellation was raised; nothing else, such as the
\* time spent paused, ends it.
C9_ExitOnlyOnFourEvents ==
    /\ (AfterLoop /\ exit_reason \in LoopExits) =>
          \/ position >= total
          \/ sink.empty /\ ~sink.stopped
          \/ interactive /\ IsPress(tick_log.ev) /\ tick_log.ev.code \in QuitKeys
          \/ tick_log.cancel /\ interrupted /\ result = "err_cancel"
    /\ (pc = "loop" /\ ticks > 0) =>
          /\ position < total
          /\ ~sink.empty
          /\ ~tick_log.cancel
          /\ ~(interactive /\ IsPress(tick_log.ev) /\ tick_log.ev.code \in QuitKeys)

C9_Witness ==
    /\ pc = "loop"
    /\ ticks = MaxTicks
    /\ paused
    /\ sink.paused
    /\ ~sink.empty
    /\ position < total

\* C7: the session volume is within [0.0, 2.0] from the start of the session
\* on, for every initial amplify value and every sequence of up, down and
\* mute keys.
C7_VolumeInRange ==
    pc # "play_audio" => FLe(F32_ZERO, volume) /\ FLe(volume, VOLUME_MAX)

\* C10 as stated: if the sink position advances at every iteration in which
\* the session is not paused and the session is not left paused forever, the
\* session eventually returns to the caller.
C10_EventuallyReturns ==
    ([]<>(~paused)) => <>(pc = "returned")

\* C10 as amended: if moreover backward seeks do not go on forever, the
\* session eventually returns to the caller; the 1-hour fallback total bounds
\* a session with no known duration in the same way.
BackSeek == IsPress(tick_log.ev) /\ tick_log.ev.code \in BackKeys

C10_ReturnsWithoutEndlessRewind ==
    (([]<>(~paused)) /\ (<>[](~BackSeek))) => <>(pc = "returned")

C10_Witness ==
    /\ pc = "returned"
    /\ exit_reason = "total"
    /\ total = FALLBACK_DURATION
    /\ ~paused
    /\ result = "ok"

\* C11: the total handed to the wait loop is the first present of the -d
\* override, the decoder's duration, the container-header duration, else one
\* hour; a negative override and a zero header duration count as absent, so
\* (none, none, header 0) gives 3600 s and (none, none, header 90 s) gives 90 s.
Present(o) == o # None

C11_ResolutionOrder ==
    (pc # "play_audio" /\ exit_reason # "setup_error") =>
        /\ total = IF Present(call.flag) /\ call.flag[1] >= 0 THEN call.flag[1]
                   ELSE IF Present(call.decoder) THEN call.decoder[1]
                   ELSE IF Present(call.lofty) /\ call.lofty[1] # 0 THEN call.lofty[1]
                   ELSE 36000
        /\ call = [flag |-> None, decoder |-> None, lofty |-> Some(0), amplify |-> None]
              => total = 36000
        /\ call = [flag |-> Some(-10), decoder |-> None, lofty |-> None, amplify |-> None]
              => total = 36000
        /\ call = [flag |-> None, decoder |-> None, lofty |-> Some(900), amplify |-> None]
              => total = 900

C11_Witness ==
    /\ pc = "loop"
    /\ call = [flag |-> Some(-10), decoder |-> None, lofty |-> Some(0), amplify |-> None]
    /\ total = FALLBACK_DURATION
    /\ interactive

\* C12: from the start of wait_with_progress on, interactive is total >= 60 s
\* and stays so through every iteration, whatever keys are processed: a 90 s
\* track is interactive, a 30 s track is not, a 60 s track is.
InProgressSession ==
    \/ pc \in {"loop", "final_render", "teardown"}
    \/ pc = "returned" /\ exit_reason \in LoopExits \cup {"raw_error"}

ShortSession ==
    /\ total < 600
    /\ pc \in {"loop", "final_render", "teardown", "returned"}
    /\ exit_reason \notin {"setup_error", "silent_cancel", "silent_total", "silent_empty"}

C13_ShortSessionPassive ==
    [][ShortSession' =>
          /\ ~term'.raw
          /\ ~interactive'
          /\ tick_log'.ev = NoEvent
          /\ tick_log'.cmds = <<>>
          /\ ~paused' /\ ~sink'.paused
          /\ volume' = volume /\ sink'.volume = volume'
          /\ exit_reason' \in {"none", "total", "empty", "cancel"}
          /\ (ticks' # ticks /\ pc' = "loop")
                => (tick_log'.frames # <<>> <=> since_render >= 5)
          /\ (ticks' # ticks /\ pc' = "final_render")
                => (position' >= total \/ sink'.empty)]_vars

C13_Witness ==
    /\ pc = "loop"
    /\ total = 300
    /\ ticks = MaxTicks
    /\ ~interactive
    /\ tick_log.frames # <<>>
    /\ ~tick_log.frames[1].first
    /\ volume = VOLUME_MAX
    /\ position > 0

\* C14: after an iteration that processed a seek key whose seek the sink
\* accepted, the session's elapsed position is the seek target, and the frame
\* drawn in that iteration shows the target.
SeekProcessed ==
    /\ pc = "loop"
    /\ IsPress(tick_log.ev)
    /\ tick_log.ev.code \in {"Right", "l", "Left", "h"}
    /\ tick_log.cmds # <<>>

C14_SeekSetsElapsed ==
    (SeekProcessed /\ tick_log.cmds[1].ok) =>
        /\ tick_log.cmds[1].op = "try_seek"
        /\ tick_log.cmds[1].arg =
              IF tick_log.ev.code \in {"Right", "l"}
              THEN Min(tick_log.pos + 50, total)
              ELSE IF tick_log.pos >= 50 THEN tick_log.pos - 50 ELSE 0
        /\ position = tick_log.cmds[1].arg
        /\ tick_log.frames # <<>>
        /\ tick_log.frames[1].elapsed = tick_log.cmds[1].arg

\* C15: an iteration in which the sink rejects a seek leaves paused, volume
\* and the remembered volume as they were, leaves elapsed at the position read
\* at the start of the iteration with the sink where it was, returns no error
\* and stays in the loop.
SeekRejected ==
    /\ tick_log.cmds # <<>>
    /\ tick_log.cmds[1].op = "try_seek"
    /\ ~tick_log.cmds[1].ok

C15_RejectedSeekIgnored ==
    [][(ticks' # ticks /\ SeekRejected') =>
          /\ pc' = "loop"
          /\ result' = "none"
          /\ exit_reason' = "none"
          /\ paused' = paused /\ sink'.paused = sink.paused
          /\ volume' = volume /\ sink'.volume = sink.volume
          /\ pre_mute_volume' = pre_mute_volume
          /\ position' = tick_log'.pos
          /\ sink'.pos = position'
          /\ ~sink'.stopped]_vars

C15_Witness ==
    /\ pc = "loop"
    /\ SeekRejected
    /\ ticks = MaxTicks
    /\ paused
    /\ volume = F32_ZERO
    /\ position > 0
    /\ sink.pos = position

\* C16: an iteration that processes 'm' at a volume v > 0 sets the volume to 0
\* and remembers v; an iteration that processes 'm' at volume 0 sets the
\* volume to the remembered value, or to one volume step when that value is
\* below one step; an iteration with no volume key changes neither the volume
\* nor the remembered value.  So 'm', then any keys but volume keys, then 'm'
\* restores v.
KeyProcessed(codes) == IsPress(tick_log.ev) /\ tick_log.ev.code \in codes

C16_MuteThenUnmute ==
    [][/\ (ticks' # ticks /\ KeyProcessed({"m"})' /\ FGt(volume, 0))
            => /\ volume' = 0
               /\ sink'.volume = 0
               /\ pre_mute_volume' = volume
       /\ (ticks' # ticks /\ KeyProcessed({"m"})' /\ volume = 0 /\ FGt(pre_mute_volume, 0))
            => /\ volume' = IF pre_mute_volume >= 26843546 THEN pre_mute_volume
                                                            ELSE 26843546
               /\ sink'.volume = volume'
               /\ pre_mute_volume' = pre_mute_volume
       /\ (pc \in {"loop", "final_render", "teardown"}
             /\ ~KeyProcessed({"m", "Up", "k", "Down", "j"})')
            => /\ volume' = volume
               /\ pre_mute_volume' = pre_mute_volume
               /\ sink'.volume = sink.volume]_vars

C16_Witness ==
    /\ pc = "loop"
    /\ ticks = MaxTicks
    /\ KeyProcessed({"m"})
    /\ pre_mute_volume = 10737418
    /\ volume = VOLUME_STEP
    /\ sink.volume = VOLUME_STEP

\* C17 as stated: from volume 1.0, after n up presses in a row the volume is
\* 1.0 plus n steps, and from the 20th press on it is exactly 2.0.
C17_TwoAfterTwenty ==
    (pc = "loop" /\ total = FALLBACK_DURATION) =>
        /\ ticks >= 20 => volume = VOLUME_MAX
        /\ ticks < 20 => volume < VOLUME_MAX

\* C17 as amended: from volume 1.0, each of the first 20 up presses raises the
\* volume by one step less the f32 rounding of the sum (at most 2^-24 a
\* press), which leaves it at 1.9999990 after 20 presses; the 21st press makes
\* it exactly 2.0 and every further press leaves it at exactly 2.0.
C17_TwoAfterTwentyOne ==
    (pc = "loop" /\ total = FALLBACK_DURATION) =>
        /\ ticks <= 20 => /\ volume < VOLUME_MAX
                          /\ volume <= F32_ONE + ticks * VOLUME_STEP
                          /\ volume >= F32_ONE + ticks * VOLUME_STEP - ticks * 32
        /\ ticks = 20 => volume = VOLUME_MAX - 512
        /\ ticks >= 21 => volume = VOLUME_MAX
        /\ sink.volume = volume
        /\ pre_mute_volume = volume

C17_Witness ==
    /\ pc = "loop"
    /\ ticks = MaxPresses
    /\ volume = VOLUME_MAX
    /\ KeyProcessed({"Up", "k"})
    /\ sink.volume = VOLUME_MAX

\* C18: paused is false when the loop starts; it changes only in an iteration
\* that processes a space key press, which flips it and sends the sink the
\* matching command (pause when it becomes true, play when it becomes false),
\* so paused always equals the sink's paused state; a seek, volume, mute or
\* unmapped key leaves it alone.
C18_PausedFollowsSpace ==
    [][/\ pc = "progress_start" => ~paused /\ ~paused'
       /\ paused' # paused
            => /\ ticks' # ticks
               /\ IsPress(tick_log'.ev) /\ tick_log'.ev.code = " "
       /\ (ticks' # ticks /\ IsPress(tick_log'.ev) /\ tick_log'.ev.code = " ")
            => /\ paused' = ~paused
               /\ tick_log'.cmds = <<Cmd(IF paused' THEN "pause" ELSE "play", 0, TRUE)>>
       /\ paused' <=> sink'.paused]_vars

C18_Witness ==
    /\ pc = "loop"
    /\ ticks = MaxTicks
    /\ paused
    /\ sink.paused
    /\ KeyProcessed({"m"})
    /\ volume = F32_ZERO

\* C19 as stated: whichever way the loop was left, cancellation included,
\* exactly one final render call has been made when the teardown begins.
C19_FinalRenderOnEveryExit ==
    (pc \in {"teardown", "returned"} /\ exit_reason \in LoopExits)
        => Len(final_frame) = 1

\* C19 as amended: when the loop was left because elapsed reached total, the
\* sink was empty or a quit key was pressed, exactly one final render call is
\* made after the last iteration and before the teardown; when it was left by
\* cancellation the error leaves the closure and no final render call is made.
C19_FinalRenderUnlessCancelled ==
    /\ pc \in {"play_audio", "progress_start", "loop", "final_render"}
          => final_frame = <<>>
    /\ (pc \in {"teardown", "returned"} /\ exit_reason \in {"total", "empty", "quit"})
          => Len(final_frame) = 1
    /\ (pc = "teardown" /\ exit_reason \in {"total", "empty", "quit"})
          => term.hidden /\ n_show = 0 /\ n_clear = 0
    /\ (pc \in {"teardown", "returned"} /\ exit_reason = "cancel")
          => final_frame = <<>> /\ result = "err_cancel"

C19_Witness ==
    /\ pc = "returned"
    /\ exit_reason = "quit"
    /\ Len(final_frame) = 1
    /\ final_frame[1].written
    /\ ticks = MaxTicks
    /\ n_clear = 2

\* C20: in a render call on a terminal at least 40 columns wide, the main bar
\* width plus the volume bar width is at most the terminal width less the
\* overhead of everything else on the line, so the line fits the terminal.
C20_BarsFit ==
    (layout.done /\ layout.size # None /\ layout.size[1] >= 40) =>
        /\ layout.bar_width + layout.vol_bar_width
              <= SaturatingSub(layout.size[1], layout.overhead)
        /\ layout.overhead + layout.bar_width + layout.vol_bar_width <= layout.size[1]

\* C21: a render call on a terminal narrower than 40 columns writes nothing;
\* on a terminal of 40 columns or more it writes exactly one buffer, which
\* holds the progress line (and the header, when there is one).
C21_NarrowWritesNothing ==
    (layout.done /\ layout.size # None) =>
        /\ layout.size[1] < 40 => layout.buffers = <<>>
        /\ layout.size[1] >= 40
              => /\ Len(layout.buffers) = 1
                 /\ Count(layout.buffers[1], "WriteProgress") = 1
                 /\ Count(layout.buffers[1], "WriteHeader")
                       = IF layout.header THEN 1 ELSE 0

C21_Witness ==
    /\ layout.done
    /\ layout.size = Some(39)
    /\ layout.header
    /\ layout.first_render
    /\ layout.buffers = <<>>

\* C22: an iteration whose frame write fails stays in the loop with no error:
\* elapsed is the position read in that iteration, paused and volume are what
\* the keys of the iteration made them (unchanged when no command went to the
\* sink) and are what the frame was given; a final render whose write fails
\* still ends in success; no result of the session is a write error.
FailedWrite == tick_log.frames # <<>> /\ ~tick_log.write_ok

C22_WriteFailureIgnored ==
    [][/\ (ticks' # ticks /\ FailedWrite')
            => /\ pc' = "loop"
               /\ result' = "none"
               /\ exit_reason' = "none"
               /\ term' = term
               /\ position' = tick_log'.pos
               /\ tick_log'.frames[1].elapsed = position'
               /\ tick_log'.frames[1].paused = paused'
               /\ tick_log'.frames[1].volume = volume'
               /\ tick_log'.cmds = <<>>
                     => paused' = paused /\ volume' = volume
       /\ final_frame' # final_frame
            => /\ pc' = "teardown"
               /\ result' = "ok"
               /\ position' = position /\ paused' = paused /\ volume' = volume
       /\ result' \in {"none", "ok", "err_cancel", "err_raw", "err_setup"}]_vars

C22_Witness ==
    /\ pc = "returned"
    /\ result = "ok"
    /\ exit_reason = "total"
    /\ ~final_frame[1].written
    /\ \A r \in Rows : term.lines[r] \notin ProgressText
    /\ first_render

\* C23: the icon set is NerdFont when the flag is given; else NerdFont when
\* NERD_FONTS is "1" or "true" in any letter case; else Unicode when the
\* terminal capability probe succeeds; else Ascii.  With no flag (or a flag
\* that cannot be read), no NERD_FONTS and none of the variables the probe
\* looks at, it is Ascii.
FlagGiven == probe.flag = Some(TRUE)

EnvSignal ==
    probe.env.NERD_FONTS \in
        {Some(Str_1), Some(Str_true), Some(<<"T", "R", "U", "E">>),
         Some(<<"T", "r", "u", "e">>)}

ProbeSucceeds ==
    IF probe.env.windows
    THEN \/ probe.env.WT_SESSION # None
         \/ probe.env.ConEmuPID # None
         \/ probe.env.TERM_PROGRAM = Some("vscode")
         \/ probe.env.ANSICON # None
    ELSE \/ /\ probe.env.LANG # None
            /\ probe.env.LANG \in {Some(<<"C", ".", "U", "T", "F", "-", "8">>),
                                   Some(<<"c", ".", "u", "t", "f", "8">>)}
         \/ /\ probe.env.LANG = None
            /\ probe.env.LC_ALL \in {Some(<<"C", ".", "U", "T", "F", "-", "8">>),
                                     Some(<<"c", ".", "u", "t", "f", "8">>)}

AllSignalsAbsent ==
    /\ probe.flag # Some(TRUE)
    /\ probe.env.NERD_FONTS = None
    /\ probe.env.LANG = None /\ probe.env.LC_ALL = None
    /\ probe.env.WT_SESSION = None /\ probe.env.ConEmuPID = None
    /\ probe.env.TERM_PROGRAM = None /\ probe.env.ANSICON = None

C23_IconSetPriority ==
    (probe.done /\ probe.icons # "none") =>
        /\ probe.icons = IF FlagGiven THEN "NerdFont"
                         ELSE IF EnvSignal THEN "NerdFont"
                         ELSE IF ProbeSucceeds THEN "Unicode"
                         ELSE "Ascii"
        /\ AllSignalsAbsent => probe.icons = "Ascii"

C23_Witness ==
    /\ probe.done
    /\ probe.flag = Some(FALSE)
    /\ probe.env.NERD_FONTS = Some(<<"T", "r", "u", "e">>)
    /\ ~probe.env.windows
    /\ probe.env.LANG = Some(<<"c", ".", "u", "t", "f", "8">>)
    /\ probe.icons = "NerdFont"

\* C24: under --no-progress every evaluation of the wait_silent loop either
\* returns success, when the wall-clock time has reached total or the sink
\* reports empty, or else checks cancellation and returns the cancellation
\* error when it is raised, or else sleeps one poll interval and goes round;
\* no frame is rendered, the terminal is as it was found, no key is read and
\* nothing is sent to the sink.
SilentStep == pc = "silent" /\ interrupted' = interrupted /\ pc' # "play_audio"

SilentOver == wall >= total \/ sink'.empty

C24_SilentWait ==
    [][SilentStep =>
         /\ SilentOver => pc' = "returned" /\ result' = "ok"
         /\ (~SilentOver /\ interrupted)
               => pc' = "returned" /\ result' = "err_cancel"
         /\ (~SilentOver /\ ~interrupted)
               => /\ pc' = "silent" /\ result' = "none"
                  /\ ticks' = ticks + 1
                  /\ wall' > wall
         /\ term' = term /\ term = TermInit
         /\ tick_log' = EmptyLog /\ final_frame' = <<>>
         /\ n_show' = 0 /\ n_clear' = 0
         /\ first_render'
         /\ [sink' EXCEPT !.empty = FALSE] = [sink EXCEPT !.empty = FALSE]
         /\ <<position', paused', volume'>> = <<position, paused, volume>>]_vars

C24_Witness ==
    /\ pc = "returned"
    /\ exit_reason = "silent_cancel"
    /\ result = "err_cancel"
    /\ ticks >= 1
    /\ wall < total
    /\ term = TermInit

\* C25: sound meta set with a key that, lower-cased, is not in the key map,
\* or whose text the tag rejects, returns an error and leaves the file as it
\* was, with no save attempted; a save is attempted only for a key in the
\* map whose text the tag accepted; a successful call returns the record
\* read from the file as saved, which holds the new text under the key; a
\* key in the map in any letter case succeeds when nothing else fails.
KnownSpellings ==
    {Str_title, <<"T", "i", "t", "l", "e">>, <<"T", "I", "T", "L", "E">>,
     Str_artist, <<"A", "r", "t", "i", "s", "t">>}

KeyKnown == probe.key # None /\ probe.key[1] \in KnownSpellings

KeyItem ==
    IF probe.key[1] \in {Str_artist, <<"A", "r", "t", "i", "s", "t">>}
    THEN "TrackArtist" ELSE "TrackTitle"

MetaReached == probe.load_ok /\ probe.key # None /\ probe.value # None /\ probe.read_ok

C25_MetaSetWritesLast ==
    (probe.done /\ probe.saves \in Nat) =>
        /\ (MetaReached /\ ~KeyKnown)
              => /\ probe.result = MetaError("unknown_key")
                 /\ probe.saves = 0 /\ probe.disk = probe.before
        /\ (MetaReached /\ KeyKnown /\ ~probe.accepts)
              => /\ probe.result = MetaError("rejected")
                 /\ probe.saves = 0 /\ probe.disk = probe.before
        /\ probe.saves > 0 => probe.saves = 1 /\ MetaReached /\ KeyKnown /\ probe.accepts
        /\ probe.saves = 0 => probe.disk = probe.before /\ ~probe.result.ok
        /\ probe.result.ok
              => /\ probe.saves = 1
                 /\ probe.result.meta = Some(probe.disk)
                 /\ probe.disk.tag[1][KeyItem] = probe.value[1]
                 /\ \A k \in ItemKeys \ {KeyItem} :
                       probe.disk.tag[1][k]
                         = IF probe.before.tag = None THEN "" ELSE probe.before.tag[1][k]
        /\ (MetaReached /\ KeyKnown /\ probe.accepts /\ probe.save_ok
              /\ probe.reopen_ok /\ probe.parse_ok) => probe.result.ok

C25_Witness ==
    /\ probe.done
    /\ probe.saves = 0
    /\ MetaReached
    /\ probe.key = Some(<<"T", "i", "t", "l", "e">>)
    /\ ~probe.accepts
    /\ probe.save_ok
    /\ probe.result = MetaError("rejected")
    /\ probe.before.tag # None

\* C26 as stated: the final render call is given elapsed, volume and paused
\* as they stand when the loop exits.
C26_FinalFrameEndState ==
    final_frame # <<>> =>
        /\ final_frame[1].elapsed = Min(position, total)
        /\ final_frame[1].volume = volume
        /\ final_frame[1].paused = paused

\* C26 as the code has it: the final render call is given elapsed (capped at
\* total) and volume as they stand when the loop exits, and paused = false
\* whatever the session's paused flag is.
C26_FinalFrameNeverPaused ==
    final_frame # <<>> =>
        /\ final_frame[1].elapsed = Min(position, total)
        /\ final_frame[1].volume = volume
        /\ ~final_frame[1].paused

C26_Witness ==
    /\ pc = "returned"
    /\ exit_reason = "quit"
    /\ paused
    /\ sink.paused
    /\ Len(final_frame) = 1
    /\ final_frame[1].written
    /\ volume # F32_ONE

\* C27: from the start of the progress session on, the volume last set on the
\* sink is the session's volume; a tick that processes an up, down or mute
\* key sends the sink exactly one command, set_volume with the new volume.
VolumeKeys == UpKeys \cup DownKeys \cup MuteKeys

C27_SinkVolumeFollows ==
    /\ (pc = "progress_start" \/ InProgressSession) => sink.volume = volume
    /\ (pc \in {"loop", "final_render"} /\ interactive /\ ticks > 0
          /\ ~tick_log.cancel /\ tick_log.exit \in {"none", "quit"}
          /\ KeyProcessed(VolumeKeys))
          => tick_log.cmds = <<Cmd("set_volume", volume, TRUE)>>

C27_Witness ==
    /\ pc = "loop"
    /\ ticks = 2
    /\ KeyProcessed(MuteKeys)
    /\ volume = Unmute(pre_mute_volume)
    /\ FGt(volume, F32_ZERO)
    /\ volume # F32_ONE
    /\ sink.volume = volume
    /\ tick_log.cmds = <<Cmd("set_volume", volume, TRUE)>>

\* C28 as stated: in the progress session, whenever neither value is NaN,
\* pre_mute_volume is greater than zero and, while the volume is not zero,
\* equal to it (the most recent nonzero volume being the present one).
NumbersOnly == volume # NaN /\ pre_mute_volume # NaN

C28_LastNonzeroVolume ==
    (InProgressSession /\ NumbersOnly) =>
        /\ FGt(pre_mute_volume, F32_ZERO)
        /\ FGt(volume, F32_ZERO) => pre_mute_volume = volume

\* C28 as the code has it: pre_mute_volume is the initial volume until a key
\* changes it; an up or down key stores the new volume when that is above
\* zero and leaves pre_mute_volume alone when it is zero; a mute key pressed
\* at a volume above zero stores that volume; a mute key pressed at volume
\* zero restores max(pre_mute_volume, 0.05) and stores nothing.  So while
\* the volume is above zero pre_mute_volume equals it, unless an unmute
\* raised a smaller pre_mute_volume to 0.05; and it is never below zero.
VolumeKeyActed(codes) == ticks' # ticks /\ interactive /\ KeyProcessed(codes)'

C28_PreMuteTracking ==
    [][(NumbersOnly /\ InProgressSession') =>
         /\ (VolumeKeyActed(UpKeys \cup DownKeys) /\ FGt(volume', F32_ZERO))
               => pre_mute_volume' = volume'
         /\ (VolumeKeyActed(UpKeys \cup DownKeys) /\ ~FGt(volume', F32_ZERO))
               => pre_mute_volume' = pre_mute_volume
         /\ (VolumeKeyActed(MuteKeys) /\ FGt(volume, F32_ZERO))
               => pre_mute_volume' = volume /\ volume' = F32_ZERO
         /\ (VolumeKeyActed(MuteKeys) /\ ~FGt(volume, F32_ZERO))
               => /\ pre_mute_volume' = pre_mute_volume
                  /\ volume' = FMax(pre_mute_volume, VOLUME_STEP)
         /\ ~VolumeKeyActed(VolumeKeys)
               => pre_mute_volume' = pre_mute_volume /\ volume' = volume
         /\ FGt(volume', F32_ZERO)
               => \/ pre_mute_volume' = volume'
                  \/ volume' = VOLUME_STEP /\ ~FGt(pre_mute_volume', VOLUME_STEP)
         /\ FLe(F32_ZERO, pre_mute_volume')]_vars

C28_Witness ==
    /\ pc = "loop"
    /\ ticks = 2
    /\ interactive
    /\ KeyProcessed(MuteKeys)
    /\ volume = VOLUME_STEP
    /\ pre_mute_volume = 10737418
    /\ sink.volume = VOLUME_STEP

\* C29: an iteration that processes a space, seek, volume or mute key makes
\* one render call before it ends, however short the time since the last
\* render; the frame shows the position read in the iteration and the paused
\* flag and volume as the key left them.
StateKeys == SpaceKeys \cup ForwardKeys \cup BackKeys \cup VolumeKeys

Continued == tick_log.exit = "none" /\ ~tick_log.cancel

C29_KeyRendersAtOnce ==
    [][(ticks' # ticks /\ Continued' /\ KeyProcessed(StateKeys)')
         => /\ Len(tick_log'.frames) = 1
            /\ tick_log'.frames[1].elapsed = position'
            /\ tick_log'.frames[1].paused = paused'
            /\ tick_log'.frames[1].volume = volume'
            /\ tick_log'.frames[1].written
            /\ term'.lines[term'.row] = "progress"
            /\ ~first_render']_vars

C29_Witness ==
    /\ pc = "loop"
    /\ ticks = 3
    /\ Continued
    /\ KeyProcessed(BackKeys)
    /\ since_render < RENDER_INTERVAL
    /\ Len(tick_log.frames) = 1
    /\ ~tick_log.frames[1].first

\* C30: an iteration that goes on to the next and processes no space, seek,
\* volume or mute key makes a render call if and only if at least
\* RENDER_INTERVAL (500 ms) has passed since the last render, and when it
\* renders it starts the interval anew.
C30_PeriodicRender ==
    [][(ticks' # ticks /\ Continued' /\ ~KeyProcessed(StateKeys)')
         => /\ tick_log'.frames # <<>> <=> since_render >= RENDER_INTERVAL
            /\ tick_log'.frames # <<>> => since_render' < RENDER_INTERVAL
            /\ tick_log'.frames = <<>> => since_render' > since_render
                                          \/ since_render' = RENDER_INTERVAL
            /\ Len(tick_log'.frames) <= 1]_vars

C30_Witness ==
    /\ pc = "loop"
    /\ ticks = 3
    /\ Continued
    /\ ~KeyProcessed(StateKeys)
    /\ IsPress(tick_log.ev)
    /\ Len(tick_log.frames) = 1
    /\ ~tick_log.frames[1].first
    /\ since_render < RENDER_INTERVAL

\* C31: an iteration of an interactive session takes at most one event from
\* the queue, the oldest, and acts on it in that iteration; it takes one
\* whenever it reaches the poll with an event waiting, unless the poll
\* fails; the events left keep their order; an iteration that takes no
\* event sends nothing to the sink and leaves paused, volume and
\* pre_mute_volume alone, and still ends (the poll does not wait).
ReachedPoll == interactive /\ tick_log.exit \in {"none", "quit"}

Took == pending # <<>> /\ ReachedPoll' /\ tick_log'.ev # PollError

C31_OneEventPerTick ==
    [][(ticks' # ticks /\ interactive) =>
         /\ Took => pending' = Tail(pending) /\ tick_log'.ev = Head(pending)
         /\ ~Took
               => /\ pending' = pending
                  /\ tick_log'.ev \in {NoEvent, PollError}
                  /\ tick_log'.cmds = <<>>
                  /\ <<paused', volume', pre_mute_volume'>>
                       = <<paused, volume, pre_mute_volume>>
                  /\ <<sink'.paused, sink'.volume, sink'.stopped>>
                       = <<sink.paused, sink.volume, sink.stopped>>
         /\ (Took /\ IsPress(Head(pending)) /\ Head(pending).code \in SpaceKeys)
               => paused' = ~paused
         /\ ticks' = ticks + 1]_vars

C31_Witness ==
    /\ pc = "loop"
    /\ ticks = 3
    /\ paused
    /\ FGt(volume, F32_ONE)
    /\ tick_log.ev = KeyPress("Up")
    /\ pending = <<KeyPress("q")>>

\* C32: every position handed to try_seek lies in [0, total]; a forward seek
\* from a position within SEEK_STEP (5 s) of the end asks for total, a
\* backward seek from a position within SEEK_STEP of the start asks for 0,
\* and every other seek asks for the position read plus or minus SEEK_STEP.
SeekAsked == tick_log.cmds # <<>> /\ tick_log.cmds[1].op = "try_seek"

C32_SeekTargetInRange ==
    /\ SeekAsked =>
          /\ Len(tick_log.cmds) = 1
          /\ KeyProcessed(ForwardKeys \cup BackKeys)
          /\ tick_log.cmds[1].arg \in 0 .. total
          /\ KeyProcessed(ForwardKeys)
                => tick_log.cmds[1].arg = IF tick_log.pos + 50 >= total THEN total
                                          ELSE tick_log.pos + 50
          /\ KeyProcessed(BackKeys)
                => tick_log.cmds[1].arg = IF tick_log.pos <= 50 THEN 0
                                          ELSE tick_log.pos - 50
    /\ (pc = "loop" /\ ticks > 0 /\ KeyProcessed(ForwardKeys \cup BackKeys))
          => SeekAsked

C32_Witness ==
    /\ pc = "loop"
    /\ SeekAsked
    /\ KeyProcessed(ForwardKeys)
    /\ tick_log.pos > total - 50
    /\ tick_log.pos < total
    /\ tick_log.cmds[1].arg = total
    /\ tick_log.cmds[1].ok
    /\ sink.pos = total

\* C33: in every render call that writes a frame, the main bar width lies in
\* [10, 60] and the volume bar width is max(5, main bar width / 3).
C33_BarWidthsClamped ==
    (layout.done /\ layout.buffers # <<>>) =>
        /\ layout.bar_width \in 10 .. 60
        /\ layout.vol_bar_width = Max(5, layout.bar_width \div 3)

\* C34: for every ratio in [0, 1], every width of 10 or more and every icon
\* set, the bar render_bar draws has at most width filled cells, a partial
\* cell counted as one: the full cells are ratio * width rounded down (Nerd
\* Font) or to the nearest (the other sets), at most one partial cell
\* follows and only in the Nerd Font set, and the bar is width cells long.
FilledCells == Count(probe.bar, "fill") + Count(probe.bar, "partial")

C34_BarFillFits ==
    (probe.done /\ probe.ratio \in 0 .. RatioDen /\ probe.width >= 10) =>
        /\ FilledCells <= probe.width
        /\ Len(probe.bar) = probe.width
        /\ Count(probe.bar, "partial") <= 1
        /\ Count(probe.bar, "partial") = 1 => probe.icons = "NerdFont"
        /\ Count(probe.bar, "fill")
             = IF probe.icons = "NerdFont"
               THEN (probe.ratio * probe.width) \div RatioDen
               ELSE (2 * probe.ratio * probe.width + RatioDen) \div (2 * RatioDen)
        /\ \A i \in 1 .. Len(probe.bar) - 1 :
              probe.bar[i] # "fill" => probe.bar[i + 1] = "empty"

C34_Witness ==
    /\ probe.done
    /\ probe.icons = "NerdFont"
    /\ probe.width = 11
    /\ probe.ratio = RatioDen - 1
    /\ Count(probe.bar, "fill") = 10
    /\ Count(probe.bar, "partial") = 1
    /\ Count(probe.bar, "empty") = 0

\* C35 as stated: a render call in which size() fails draws what a render
\* call with a reported width of 80 draws: it renders, with the same main
\* and volume bar widths and the same header truncation.
SizeFailed == layout.done /\ layout.size = None

C35_FailureIsEighty ==
    SizeFailed =>
        /\ layout.buffers # <<>>
        /\ layout.bar_width = BarLayout(80, layout.overhead).bar_width
        /\ layout.vol_bar_width = BarLayout(80, layout.overhead).vol_bar_width
        /\ layout.header
              => layout.hdr_shown = HeaderShown(layout.hdr_width, Some(80), layout.icons)

\* C35 as the code has it: when size() fails the frame is rendered as on a
\* terminal of any width, the bars keep their defaults of 30 and 10 cells
\* whatever the rest of the line takes, and the header is cut as on a
\* terminal 80 columns wide.
C35_FailureDefaults ==
    SizeFailed =>
        /\ layout.buffers # <<>>
        /\ Count(layout.buffers[1], "WriteProgress") = 1
        /\ layout.bar_width = 30
        /\ layout.vol_bar_width = 10
        /\ layout.header
              => layout.hdr_shown = IF layout.hdr_width > 80 THEN 80 ELSE layout.hdr_width

C35_Witness ==
    /\ SizeFailed
    /\ layout.header
    /\ layout.hdr_width = 81
    /\ layout.hdr_shown = 80
    /\ layout.interactive
    /\ layout.bar_width = 30
    /\ BarLayout(80, layout.overhead).bar_width = 10

\* C36: an iteration that finds playback ended (elapsed at total, or the sink
\* empty) while an interrupt is raised leaves the loop by the end of
\* playback, not by cancellation: the final render follows and the session
\* returns success.
EndedNow == position >= total \/ sink.empty

C36_EndBeforeCancel ==
    [][/\ (ticks' # ticks /\ interrupted /\ EndedNow')
            => /\ pc' = "final_render"
               /\ result' = "none"
               /\ exit_reason' \in {"total", "empty"}
               /\ tick_log'.cancel
       /\ (ticks' # ticks /\ interrupted /\ ~EndedNow')
            => result' = "err_cancel" /\ exit_reason' = "cancel"
       /\ (pc = "final_render" /\ pc' # pc)
            => Len(final_frame') = 1 /\ result' = "ok"
       /\ (pc' = "returned" /\ exit_reason' \in {"total", "empty"})
            => result' = "ok" /\ Len(final_frame') = 1]_vars

C36_Witness ==
    /\ pc = "returned"
    /\ ticks = 2
    /\ interrupted
    /\ tick_log.cancel
    /\ exit_reason = "total"
    /\ result = "ok"
    /\ Len(final_frame) = 1
    /\ final_frame[1].elapsed = total

\* C37: in a session with a header, once a frame has been written the line
\* reserved for the header is the one the cursor started on: the header is
\* there, the progress line is below it, and the line above the starting
\* line still shows what it showed before the session; so the first frame
\* written has reserved the line, whether or not an earlier render call was
\* suppressed by a narrow terminal.
FrameOnScreen == \E r \in Rows : term.lines[r] \in ProgressText

C37_HeaderLineReserved ==
    (header /\ pc \in {"loop", "final_render", "teardown"} /\ FrameOnScreen) =>
        /\ term.lines[-1] = "foreign"
        /\ term.lines[0] = "header"
        /\ term.lines[1] = "progress"
        /\ term.row = 1

\* C38: in a session with a header, teardown moves the cursor up one line
\* and clears that line when a frame has been written, and otherwise (the
\* session cancelled in its first iteration, or every render call suppressed
\* by a narrow terminal) leaves the cursor on its line and the line above
\* as it was.
C38_TeardownClearsOwnLines ==
    [][(pc = "teardown" /\ pc' = "returned" /\ header) =>
         IF FrameOnScreen
         THEN /\ term'.row = term.row - 1
              /\ term'.lines[term'.row] = "blank"
         ELSE /\ term'.row = term.row
              /\ term'.lines[-1] = term.lines[-1]]_vars

====
